---- MODULE Spec2Model ----
(***************************************************************************)
(* Drag-to-select time-slot picker laid over a host calendar's week grid.  *)
(* The model covers the Grid Analyzer, the Selection Store (SlotManager),  *)
(* the Drag/Pointer state machine (DragHandler, in its grid-overlay and    *)
(* its document-listener variant), the Mode Controller and Viewport Sync.  *)
(*                                                                         *)
(* Pixels and minutes are integers.  Dates are day numbers (the order of   *)
(* Date.getTime()), 0 standing for an unparseable date.  A DOM element is  *)
(* its identifier; element 0 is "no element".                              *)
(***************************************************************************)
EXTENDS Integers, Sequences, FiniteSets, TLC

(***************************************************************************)
(* Program constants (CONFIG).                                             *)
(***************************************************************************)
SNAP_MINUTES == 15
MIN_DRAG_DISTANCE_PX == 5
GCAL_HOUR_HEIGHT_PX == 48
HOURS_IN_DAY == 24
MIN_GRID_HEIGHT_PX == 1000
MIN_HOUR_HEIGHT_PX == 30
MAX_HOUR_HEIGHT_PX == 100
INIT_CHECK_INTERVAL_MS == 500
INIT_TIMEOUT_MS == 10000
CALENDAR_CHANGE_DEBOUNCE_MS == 500
SCROLL_RESIZE_DEBOUNCE_MS == 100

(***************************************************************************)
(* Bounds of the model.                                                    *)
(***************************************************************************)
MaxSlots == 2
\* the last tick of the clock
MaxTicks == 8

\* how many times one listener is notified
MaxNotifications == 3

(***************************************************************************)
(* The host page.  It renders one of a few views; each view is the list,   *)
(* in DOM order, of the elements that carry data-datekey.  date is the    *)
(* date that the element's aria-label or text names (0: it names none);    *)
(* label, where present, is what the extraction from the label returns     *)
(* instead (0: a Date that is not valid), and own what searchDateInDOM     *)
(* finds on the element itself.                                            *)
(*   view 0: no marker element at all (page not loaded / month view)       *)
(*   view 1: days 1 and 2, listed right-to-left in the DOM, with a header  *)
(*           element that shares a marker but is only 40px tall            *)
(*   view 2: days 2 and 3 in freshly created elements, the grid 48px       *)
(*           lower in the viewport                                         *)
(*   view 3: two tall elements whose dates no strategy resolves            *)
(*   view 4: days 3 and 4 in a grid taller than 24 * MAX_HOUR_HEIGHT_PX    *)
(*   view 5: days 1 and 2 re-rendered, 60px per hour, with hour markers    *)
(*   view 6: days 1 and 2 in a grid whose top is 100px down the viewport   *)
(*   view 7: eleven tall marker elements, a wide one that spans the grid   *)
(*           and ten narrow ones inside its range                          *)
(*   view 8: the elements of view 1 kept by the host, the column of day 2  *)
(*           collapsed to 40px                                             *)
(*   view 9: tall elements told apart by the way their date is found: an   *)
(*           8-digit marker (with a label that names another day), a label *)
(*           and a data-date, a data-date only, a label that matches a     *)
(*           pattern without naming a month (as "12 events" does) and a     *)
(*           data-date, nothing at all, and a grid element that names its  *)
(*           day after a header with the same marker and such a label      *)
(*   view 10: days 1 and 2 in a grid 1200px tall, without hour markers     *)
(*   view 11: days 1 and 2, 48px per hour, with three hour markers of      *)
(*           which the last lies 12px too low                              *)
(* The pointer machine is explored on views 0..2 (ViewIds), the analyzer   *)
(* and Viewport Sync on views 0..5 (GridViewIds), the conversion of        *)
(* pointer positions to times and columns on TimeViewIds, the resolution   *)
(* of dates on every view (AnalyzeViewIds).                                *)
(***************************************************************************)
HostEl(e, k, d, l, r, t, h) ==
  [element |-> e, dateKey |-> k, date |-> d, left |-> l, right |-> r,
   top |-> t, height |-> h]

HostViews ==
  << << HostEl(2, "k2", 2, 11, 20, 0, 1152),
        HostEl(9, "k1", 1, 0, 9, 0, 40),
        HostEl(1, "k1", 1, 0, 9, 0, 1152) >>,
     << HostEl(3, "k2", 2, 0, 9, 48, 1152),
        HostEl(4, "k3", 3, 11, 20, 48, 1152) >>,
     << HostEl(5, "k4", 0, 0, 9, 0, 1152),
        HostEl(6, "k5", 0, 11, 20, 0, 1152) >>,
     << HostEl(7, "k3", 3, 0, 9, 0, 3000),
        HostEl(8, "k4", 4, 11, 20, 0, 3000) >>,
     << HostEl(10, "k1", 1, 0, 9, 0, 1440),
        HostEl(11, "k2", 2, 11, 20, 0, 1440) >>,
     << HostEl(12, "k1", 1, 0, 9, 100, 1152),
        HostEl(13, "k2", 2, 11, 20, 100, 1152) >>,
     << HostEl(20, "k0", 10, 0, 200, 0, 1152) >>
        \o [i \in 1..10 |-> HostEl(20 + i, "k1", 1, 10 * i, 10 * i + 5, 0, 1152)],
     << HostEl(2, "k2", 2, 11, 20, 0, 40),
        HostEl(9, "k1", 1, 0, 9, 0, 40),
        HostEl(1, "k1", 1, 0, 9, 0, 1152) >>,
     << HostEl(40, "20250103", 5, 0, 9, 0, 1152),
        [own |-> 7] @@ HostEl(41, "k6", 6, 20, 29, 0, 1152),
        [own |-> 7] @@ HostEl(42, "k7", 0, 40, 49, 0, 1152),
        [label |-> 0, own |-> 8] @@ HostEl(43, "k8", 0, 60, 69, 0, 1152),
        HostEl(44, "k9", 0, 80, 89, 0, 1152),
        [label |-> 0] @@ HostEl(45, "k10", 0, 100, 109, 0, 40),
        HostEl(46, "k10", 10, 100, 109, 0, 1152) >>,
     << HostEl(50, "k1", 1, 0, 9, 0, 1200),
        HostEl(51, "k2", 2, 11, 20, 0, 1200) >>,
     << HostEl(52, "k1", 1, 0, 9, 0, 1152),
        HostEl(53, "k2", 2, 11, 20, 0, 1152) >> >>

\* tops of the host's hour-marker elements found next to the grid, per view
HostMarkers ==
  << <<>>, <<>>, <<>>, <<>>, <<0, 60, 120, 130, 210>>, <<>>, <<>>, <<>>, <<>>,
     <<>>, <<0, 48, 108>> >>

ViewIds == 0..2

GridViewIds == 0..5

TimeViewIds == {2, 5, 6, 7}

AnalyzeViewIds == 0..11

\* the views on which the set-up and the teardown of the application are explored
PageViewIds == {0, 1, 2, 8}

DomElements(v) == IF v = 0 THEN <<>> ELSE HostViews[v]

\* pointer positions (clientX, clientY) the user can produce
Points ==
  { <<5, 46>>, <<10, 49>>, <<5, 51>>, <<15, 1140>> }

\* pointer positions for the conversion to times and columns: above, on and
\* below the top of a grid, off the snap grid, and past the end of the day;
\* inside the first column, the second, and right of both
TimePoints == {5, 15, 57} \X {90, 100, 107, 148, 1290}

\* what lies under the pointer
Targets == {"grid", "panelHeader", "panelBody"}

Variants == {"overlay", "document"}

\* the subscribers of the Mode Controller: the panel's button, the listener
\* init() registers for the grid overlay, and one that throws when called
ListenerIds == {"panel", "overlay", "faulty"}

Throws(id) == id = "faulty"

\* listeners that call the Mode Controller back while they are notified:
\* "veto" calls deactivate() whenever it is told that the mode is on, "echo"
\* calls toggle() the first time it is called
ReentrantListenerIds == {"panel", "veto", "echo"}

Reenters(id, received, value) ==
  IF id = "veto" /\ value THEN "deactivate"
  ELSE IF id = "echo" /\ received = <<>> THEN "toggle"
  ELSE "none"

\* the two debouncers of Viewport Sync and their windows, in ticks; a tick
\* is as long as the shorter window
Debouncers == {"mutation", "scroll"}

TICK_MS == SCROLL_RESIZE_DEBOUNCE_MS

Window(d) ==
  IF d = "mutation" THEN CALENDAR_CHANGE_DEBOUNCE_MS \div TICK_MS
  ELSE SCROLL_RESIZE_DEBOUNCE_MS \div TICK_MS

\* the numbers that are not finite; every other integer is itself
NaN == 1000001
PosInfinity == 1000002
NegInfinity == -1000002

\* Number.isFinite
IsFinite(x) == x \notin {NaN, PosInfinity, NegInfinity}

NoColumn ==
  [element |-> 0, date |-> 0, dateKey |-> "", left |-> 0, right |-> 0,
   width |-> 0, top |-> 0]

\* a date that is null or undefined (0 is a Date whose getTime() is NaN)
NoDate == -1

\* a slot that is null or undefined
NullSlot ==
  [date |-> NoDate, startHour |-> 0, startMin |-> 0, endHour |-> 0, endMin |-> 0,
   overlay |-> "none", column |-> NoColumn]

VARIABLES
  variant,           \* which DragHandler build is running
  hostView,          \* the view the host page currently renders
  gridCache,         \* GridAnalyzer.gridCache
  slots,             \* SlotManager.slots
  dragState,         \* DragHandler.dragState
  panelDragging,     \* DragHandler.panelDragState.isDragging (tracked in the
                     \* document build, the only one that reads it)
  buttonDown,        \* the mouse button is held (event source)
  isActive,          \* SelectionModeManager.isActive
  gridOverlayPE,     \* style.pointerEvents of the grid overlay
  previousDateKeys,  \* closure variable of setupCalendarObserver
  calendarTimeout,   \* updateTimeout of setupCalendarObserver is pending
  scrollTimeout,     \* updateTimeout of setupScrollResizeHandlers is pending
  now,               \* the time, in ticks of TICK_MS
  pendingTimers,     \* per debouncer: the timers window.setTimeout holds,
                     \* each known by the tick at which it is due
  updateTimeout,     \* per debouncer: the timer id in its updateTimeout
                     \* variable, 0 for null
  lastTrigger,       \* per debouncer: the tick of its latest trigger, -1 if none
  handlerRuns,       \* per debouncer: runs of its handler since that trigger
  listeners,         \* SelectionModeManager.listeners in insertion order, each
                     \* with the states it has been called with
  uncaught,          \* an exception has escaped from a call into the event loop
  startup,           \* TimeSlotSelectorApp.init(): its phase, waitForCalendar's
                     \* elapsed, whether the page has a calendar container,
                     \* the calls of analyze() and the error notification
  page               \* what the application has put on the page: the panel,
                     \* the grid overlay, the drag listeners on it, the
                     \* MutationObserver, the scroll/resize handlers, and the
                     \* attached host elements whose style.pointerEvents it
                     \* has set to 'none' (followed where the application is
                     \* set up and torn down; left as init() leaves it elsewhere)

\* the debouncers' timers in time; calendarTimeout and scrollTimeout above are
\* what is left of them when time is left out (a timer is pending or not)
timerVars == << now, pendingTimers, updateTimeout, lastTrigger, handlerRuns >>

\* the Mode Controller's subscribers
modeVars == << listeners, uncaught >>

vars == << variant, hostView, gridCache, slots, dragState, panelDragging,
           buttonDown, isActive, gridOverlayPE, previousDateKeys,
           calendarTimeout, scrollTimeout, now, pendingTimers, updateTimeout,
           lastTrigger, handlerRuns, listeners, uncaught, startup, page >>

(***************************************************************************)
(* utils/time                                                              *)
(***************************************************************************)
Abs(x) == IF x < 0 THEN -x ELSE x
Min(a, b) == IF a < b THEN a ELSE b
Max(a, b) == IF a > b THEN a ELSE b

\* JavaScript's % : the remainder takes the sign of the dividend
JsRem(a, b) == IF a >= 0 THEN a % b ELSE -((-a) % b)

\* Math.floor(num/den) in the place of Math.round
MathRoundDown(num, den) == num \div den

\* Math.round(num/den) for den > 0: halves go towards +infinity
MathRound(num, den) == (2 * num + den) \div (2 * den)

\* roundToInterval(minutes, interval) with minutes = num/den
roundToInterval(num, den, interval) == MathRound(num, den * interval) * interval

snapToGrid(num, den) == roundToInterval(num, den, SNAP_MINUTES)

clampHour(hour) == Max(0, Min(23, hour))

clampMinute(minute) == Max(0, Min(59, minute))

(***************************************************************************)
(* GridAnalyzer                                                            *)
(***************************************************************************)
\* the element's entry in the view the host renders now, if it is attached
IsAttached(el, v) == \E i \in 1..Len(DomElements(v)) : DomElements(v)[i].element = el

LiveEl(el, v) ==
  LET i == CHOOSE i \in 1..Len(DomElements(v)) : DomElements(v)[i].element = el
  IN DomElements(v)[i]

\* element.getBoundingClientRect(): all zero for an element the host detached
RectTop(el, v) == IF IsAttached(el, v) THEN LiveEl(el, v).top ELSE 0
RectHeight(el, v) == IF IsAttached(el, v) THEN LiveEl(el, v).height ELSE 0
RectWidth(el, v) ==
  IF IsAttached(el, v) THEN LiveEl(el, v).right - LiveEl(el, v).left ELSE 0

\* new Date(year, month, day) of a marker of 8 digits or of the form
\* YYYY-MM-DD, as a day number; null for any other marker
DirectDate(dateKey) ==
  IF dateKey = "20250103" THEN 3
  ELSE IF dateKey = "2025-01-04" THEN 4
  ELSE NoDate

\* extractDateFromAriaLabel / extractDateFromText on the element: null, a
\* Date that is not valid (0), or the date named
LabelDate(el) ==
  IF "label" \in DOMAIN el THEN el.label
  ELSE IF el.date = 0 THEN NoDate ELSE el.date

searchDateInDOM(el) == IF "own" \in DOMAIN el THEN el.own ELSE NoDate

\* parseDateKey: the marker itself; else the first Date object that the label
\* or text of an element with the same marker yields, valid or not; else
\* searchDateInDOM.  NoDate is null.
parseDateKey(e, v) ==
  LET all == DomElements(v)
      labelled == {i \in 1..Len(all) :
                     all[i].dateKey = e.dateKey /\ LabelDate(all[i]) # NoDate}
  IN IF DirectDate(e.dateKey) # NoDate THEN DirectDate(e.dateKey)
     ELSE IF labelled # {}
          THEN LabelDate(all[CHOOSE i \in labelled : \A j \in labelled : i <= j])
          ELSE searchDateInDOM(e)

RECURSIVE InsertNumber(_, _)
InsertNumber(x, s) ==
  IF s = <<>> THEN <<x>>
  ELSE IF s[Len(s)] - x <= 0 THEN Append(s, x)
  ELSE Append(InsertNumber(x, SubSeq(s, 1, Len(s) - 1)), s[Len(s)])

RECURSIVE SortNumbers(_)
SortNumbers(s) ==
  IF s = <<>> THEN <<>>
  ELSE InsertNumber(s[Len(s)], SortNumbers(SubSeq(s, 1, Len(s) - 1)))

measureHourHeightFromTimeMarkers(tops) ==
  IF Len(tops) < 2 THEN 0
  ELSE
    LET n == Min(Len(tops) - 1, 5)
        gaps == [i \in 1..n |-> tops[i + 1] - tops[i]]
        InBand(d) == d >= MIN_HOUR_HEIGHT_PX /\ d <= MAX_HOUR_HEIGHT_PX
        measurements == SortNumbers(SelectSeq(gaps, InBand))
    IN IF measurements = <<>> THEN 0
       ELSE measurements[(Len(measurements) \div 2) + 1]

\* totalHeight / 24 is kept integral by the heights the host views use
\* calculateHourHeight without its fallbacks: the marker measurement as it is
calculateHourHeightMarkersOnly(tops, totalHeight) ==
  measureHourHeightFromTimeMarkers(tops)

\* the fallback by the grid height taking the ends of the band as outside it
calculateHourHeightTimes24OpenBand(tops, totalHeight) ==
  LET hourHeight == measureHourHeightFromTimeMarkers(tops)
  IN IF hourHeight > 0 THEN hourHeight * HOURS_IN_DAY
     ELSE IF totalHeight > HOURS_IN_DAY * MIN_HOUR_HEIGHT_PX
             /\ totalHeight < HOURS_IN_DAY * MAX_HOUR_HEIGHT_PX
          THEN totalHeight
          ELSE GCAL_HOUR_HEIGHT_PX * HOURS_IN_DAY

\* HOURS_IN_DAY times the result of calculateHourHeight, which keeps the
\* quotient totalHeight / HOURS_IN_DAY exact for every totalHeight
calculateHourHeightTimes24(tops, totalHeight) ==
  LET hourHeight == measureHourHeightFromTimeMarkers(tops)
  IN IF hourHeight > 0 THEN hourHeight * HOURS_IN_DAY
     ELSE IF totalHeight >= HOURS_IN_DAY * MIN_HOUR_HEIGHT_PX
             /\ totalHeight <= HOURS_IN_DAY * MAX_HOUR_HEIGHT_PX
          THEN totalHeight
          ELSE GCAL_HOUR_HEIGHT_PX * HOURS_IN_DAY

calculateHourHeight(tops, totalHeight) ==
  calculateHourHeightTimes24(tops, totalHeight) \div HOURS_IN_DAY

ToColumn(e, v) ==
  [element |-> e.element, date |-> parseDateKey(e, v), dateKey |-> e.dateKey,
   left |-> e.left, right |-> e.right, width |-> e.right - e.left, top |-> e.top]

\* columns.sort((a, b) => a.left - b.left), a stable sort
RECURSIVE InsertColumn(_, _)
InsertColumn(c, s) ==
  IF s = <<>> THEN <<c>>
  ELSE IF s[Len(s)].left - c.left <= 0 THEN Append(s, c)
  ELSE Append(InsertColumn(c, SubSeq(s, 1, Len(s) - 1)), s[Len(s)])

\* the columns left in the order the host page lists them
sortColumnsDomOrder(s) == s

RECURSIVE sortColumns(_)
sortColumns(s) ==
  IF s = <<>> THEN <<>>
  ELSE InsertColumn(s[Len(s)], sortColumns(SubSeq(s, 1, Len(s) - 1)))

\* analyze emptying the cached columns before it looks for marker elements
analyzeWipesFirst(cache, v) ==
  LET all == DomElements(v)
      IsGrid(e) == e.height > MIN_GRID_HEIGHT_PX /\ e.right - e.left > 0
      timeGrids == SelectSeq(all, IsGrid)
      Resolves(e) == parseDateKey(e, v) \notin {NoDate, 0}
      columns == sortColumns([i \in 1..Len(SelectSeq(timeGrids, Resolves)) |->
                                ToColumn(SelectSeq(timeGrids, Resolves)[i], v)])
  IN IF Len(columns) = 0
     THEN [ok |-> FALSE, cache |-> [cache EXCEPT !.columns = <<>>]]
     ELSE LET first == LiveEl(columns[1].element, v)
              hh == calculateHourHeight(HostMarkers[v], first.height)
          IN [ok |-> TRUE,
              cache |-> [hourHeight |-> hh, gridTop |-> columns[1].top,
                         columns |-> columns]]

\* analyze taking every marker element with a width as a time grid
analyzeAnyHeight(cache, v) ==
  LET all == DomElements(v)
      IsGrid(e) == e.right - e.left > 0
      timeGrids == SelectSeq(all, IsGrid)
      Resolves(e) == parseDateKey(e, v) \notin {NoDate, 0}
      columns == sortColumns([i \in 1..Len(SelectSeq(timeGrids, Resolves)) |->
                                ToColumn(SelectSeq(timeGrids, Resolves)[i], v)])
  IN IF Len(all) = 0 THEN [ok |-> FALSE, cache |-> cache]
     ELSE IF Len(timeGrids) = 0 THEN [ok |-> FALSE, cache |-> cache]
     ELSE IF Len(columns) = 0
          THEN [ok |-> FALSE, cache |-> [cache EXCEPT !.columns = <<>>]]
     ELSE LET first == LiveEl(columns[1].element, v)
              hh == calculateHourHeight(HostMarkers[v], first.height)
          IN [ok |-> TRUE,
              cache |-> [hourHeight |-> hh, gridTop |-> columns[1].top,
                         columns |-> columns]]

\* analyze(): the result and the cache it leaves behind, on host view v
analyze(cache, v) ==
  LET all == DomElements(v)
      IsGrid(e) == e.height > MIN_GRID_HEIGHT_PX /\ e.right - e.left > 0
      timeGrids == SelectSeq(all, IsGrid)
      Resolves(e) == parseDateKey(e, v) \notin {NoDate, 0}
      columns == sortColumns([i \in 1..Len(SelectSeq(timeGrids, Resolves)) |->
                                ToColumn(SelectSeq(timeGrids, Resolves)[i], v)])
  IN IF Len(all) = 0 THEN [ok |-> FALSE, cache |-> cache]
     ELSE IF Len(timeGrids) = 0 THEN [ok |-> FALSE, cache |-> cache]
     ELSE IF Len(columns) = 0
          THEN [ok |-> FALSE, cache |-> [cache EXCEPT !.columns = <<>>]]
     ELSE LET first == LiveEl(columns[1].element, v)
              hh == calculateHourHeight(HostMarkers[v], first.height)
          IN IF hh <= 0
             THEN [ok |-> FALSE,
                   cache |-> [cache EXCEPT !.columns = columns, !.hourHeight = hh]]
             ELSE [ok |-> TRUE,
                   cache |-> [hourHeight |-> hh, gridTop |-> columns[1].top,
                              columns |-> columns]]

\* getTimeFromY without the finiteness tests on y and totalMinutes
getTimeFromYUnchecked(y, el, cache, v) ==
  IF el = 0 THEN [hour |-> 0, minute |-> 0]
  ELSE IF cache.hourHeight <= 0 THEN [hour |-> 0, minute |-> 0]
  ELSE
    LET relativeY == y - RectTop(el, v)
        snappedMinutes == snapToGrid(relativeY * 60, cache.hourHeight)
        hour == snappedMinutes \div 60
        minute == JsRem(snappedMinutes, 60)
    IN [hour |-> clampHour(hour), minute |-> clampMinute(minute)]

\* getTimeFromY keeping the raw minute total instead of snapping it
getTimeFromYUnsnapped(y, el, cache, v) ==
  IF ~IsFinite(y) \/ el = 0 \/ ~IsFinite(cache.hourHeight) \/ cache.hourHeight <= 0
  THEN [hour |-> 0, minute |-> 0]
  ELSE
    LET relativeY == y - RectTop(el, v)
        totalMinutes == (relativeY * 60) \div cache.hourHeight
    IN [hour |-> clampHour(totalMinutes \div 60),
        minute |-> clampMinute(JsRem(totalMinutes, 60))]

\* NaN <= 0 is false and -Infinity <= 0 is true, as for the integers that
\* stand for them; relativeY / NaN is NaN, relativeY / Infinity is 0
getTimeFromY(y, el, cache, v) ==
  IF ~IsFinite(y) THEN [hour |-> 0, minute |-> 0]
  ELSE IF el = 0 THEN [hour |-> 0, minute |-> 0]
  ELSE IF cache.hourHeight <= 0 THEN [hour |-> 0, minute |-> 0]
  ELSE IF cache.hourHeight = NaN THEN [hour |-> 0, minute |-> 0]
  ELSE
    LET relativeY == y - RectTop(el, v)
        snappedMinutes ==
          IF cache.hourHeight = PosInfinity THEN snapToGrid(0, 1)
          ELSE snapToGrid(relativeY * 60, cache.hourHeight)
        hour == snappedMinutes \div 60
        minute == JsRem(snappedMinutes, 60)
    IN [hour |-> clampHour(hour), minute |-> clampMinute(minute)]

Contains(c, x) == x >= c.left /\ x <= c.right

RECURSIVE BinarySearchColumn(_, _, _, _)
BinarySearchColumn(columns, x, left, right) ==
  IF left > right THEN NoColumn
  ELSE LET mid == (left + right) \div 2
       IN IF Contains(columns[mid + 1], x) THEN columns[mid + 1]
          ELSE IF x < columns[mid + 1].left
               THEN BinarySearchColumn(columns, x, left, mid - 1)
               ELSE BinarySearchColumn(columns, x, mid + 1, right)

getColumnFromX(x, cache) ==
  LET columns == cache.columns
      hits == {i \in 1..Len(columns) : Contains(columns[i], x)}
  IN IF ~IsFinite(x) THEN NoColumn
     ELSE IF Len(columns) <= 10
     THEN IF hits = {} THEN NoColumn
          ELSE columns[CHOOSE i \in hits : \A j \in hits : i <= j]
     ELSE BinarySearchColumn(columns, x, 0, Len(columns) - 1)

getVisibleDateKeys(cache) == {cache.columns[i].dateKey : i \in 1..Len(cache.columns)}

(***************************************************************************)
(* SlotManager.  A slot is addressed by its position in the array: every   *)
(* slot object is pushed once, so removing "this object" removes exactly   *)
(* one position.                                                           *)
(***************************************************************************)
StartOf(s) == s.startHour * 60 + s.startMin
EndOf(s) == s.endHour * 60 + s.endMin

\* the comparator of sortSlots: negative, zero or positive
CompareSlots(a, b) ==
  IF a.date # b.date THEN a.date - b.date ELSE StartOf(a) - StartOf(b)

RECURSIVE InsertSlot(_, _)
InsertSlot(x, s) ==
  IF s = <<>> THEN <<x>>
  ELSE IF CompareSlots(s[Len(s)], x) <= 0 THEN Append(s, x)
  ELSE Append(InsertSlot(x, SubSeq(s, 1, Len(s) - 1)), s[Len(s)])

RECURSIVE sortSlots(_)
sortSlots(s) ==
  IF s = <<>> THEN <<>>
  ELSE InsertSlot(s[Len(s)], sortSlots(SubSeq(s, 1, Len(s) - 1)))

\* The permanent overlays in the page are counted by the slot that owns
\* them: a function from slots to the number of their overlays.
NoOverlays == <<>>

\* the overlay that createSelectionOverlay has appended for a slot joins the
\* page (its hidden dummy is never appended to a column)
AppendOverlay(b, slot) ==
  IF slot.overlay # "selection" THEN b
  ELSE [o \in DOMAIN b \cup {slot} |->
          IF o = slot THEN (IF slot \in DOMAIN b THEN b[slot] + 1 ELSE 1) ELSE b[o]]

\* slot.overlay.remove()
RemoveOverlay(b, slot) ==
  IF slot \notin DOMAIN b THEN b
  ELSE [o \in (IF b[slot] = 1 THEN DOMAIN b \ {slot} ELSE DOMAIN b) |->
          IF o = slot THEN b[slot] - 1 ELSE b[o]]

\* the overlays of a list of slots, appended or removed one by one
RECURSIVE WithOverlays(_, _)
WithOverlays(b, s) ==
  IF s = <<>> THEN b ELSE WithOverlays(AppendOverlay(b, Head(s)), Tail(s))

RECURSIVE WithoutOverlays(_, _)
WithoutOverlays(b, s) ==
  IF s = <<>> THEN b ELSE WithoutOverlays(RemoveOverlay(b, Head(s)), Tail(s))

\* addSlot without its trailing sortSlots(): shows what SlotsSorted owes to it
addSlotUnsorted(s, slot) == Append(s, slot)

addSlot(s, slot) == sortSlots(Append(s, slot))

removeSlot(s, i) == [j \in 1..(Len(s) - 1) |-> IF j < i THEN s[j] ELSE s[j + 1]]

clearAll(s) == <<>>

\* filterByVisibleDates keeping the slots in reverse order
filterByVisibleDatesReversed(s, visibleDateKeys) ==
  LET Visible(slot) == slot.column.dateKey \in visibleDateKeys
      kept == SelectSeq(s, Visible)
  IN [i \in 1..Len(kept) |-> kept[Len(kept) + 1 - i]]

filterByVisibleDates(s, visibleDateKeys) ==
  LET Visible(slot) == slot.column.dateKey \in visibleDateKeys
  IN SelectSeq(s, Visible)

\* filterByVisibleDates refreshing the list whatever it removed
filterByVisibleDatesAlwaysRefreshes(s, visibleDateKeys) ==
  LET Hidden(slot) == slot.column.dateKey \notin visibleDateKeys
  IN [slots |-> filterByVisibleDates(s, visibleDateKeys),
      removed |-> SelectSeq(s, Hidden),
      refreshed |-> TRUE]

\* all that a call of filterByVisibleDates does: the store it leaves, the
\* slots whose overlay it removes (slotsToRemove) and whether it calls
\* updateSlotList
filterByVisibleDatesEffects(s, visibleDateKeys) ==
  LET Hidden(slot) == slot.column.dateKey \notin visibleDateKeys
      kept == filterByVisibleDates(s, visibleDateKeys)
  IN [slots |-> kept,
      removed |-> SelectSeq(s, Hidden),
      refreshed |-> Len(s) # Len(kept)]

\* isDuplicate comparing the Date objects themselves instead of getTime():
\* the Date of a new slot is never the object a stored slot holds
isDuplicateByIdentity(s, newSlot) ==
  IF newSlot.date = 0 THEN TRUE
  ELSE \E i \in 1..Len(s) : FALSE

\* isDuplicate comparing the date and the start only: shows what
\* DuplicateIffSameKey owes to the comparison of all five fields
isDuplicateIgnoresEnd(s, newSlot) ==
  IF newSlot = NullSlot \/ newSlot.date = NoDate THEN TRUE
  ELSE IF newSlot.date = 0 THEN TRUE
  ELSE \E i \in 1..Len(s) :
         /\ s[i].date = newSlot.date
         /\ s[i].startHour = newSlot.startHour
         /\ s[i].startMin = newSlot.startMin

\* isDuplicate without its two validity tests: shows what
\* MalformedCandidateRejected owes to them
isDuplicateUnvalidated(s, newSlot) ==
  \E i \in 1..Len(s) :
    /\ s[i].date = newSlot.date
    /\ s[i].startHour = newSlot.startHour
    /\ s[i].startMin = newSlot.startMin
    /\ s[i].endHour = newSlot.endHour
    /\ s[i].endMin = newSlot.endMin

\* a missing slot, a missing date and an invalid Date (getTime() is NaN) are
\* all treated as duplicates
isDuplicate(s, newSlot) ==
  IF newSlot = NullSlot \/ newSlot.date = NoDate THEN TRUE
  ELSE IF newSlot.date = 0 THEN TRUE
  ELSE \E i \in 1..Len(s) :
         /\ s[i].date = newSlot.date
         /\ s[i].startHour = newSlot.startHour
         /\ s[i].startMin = newSlot.startMin
         /\ s[i].endHour = newSlot.endHour
         /\ s[i].endMin = newSlot.endMin

(***************************************************************************)
(* ui/overlay                                                              *)
(***************************************************************************)
\* updateTempOverlay: "temp" is the overlay appended to the column element,
\* "fallback" the hidden dummy returned when the element has no dimensions
updateTempOverlay(column, existingOverlay, v) ==
  IF RectWidth(column.element, v) = 0 \/ RectHeight(column.element, v) = 0
  THEN IF existingOverlay # "none" THEN existingOverlay ELSE "fallback"
  ELSE IF existingOverlay # "none" THEN existingOverlay ELSE "temp"

\* createSelectionOverlay: a range that is not start < end throws inside and
\* the hidden dummy comes back instead of a visible overlay
createSelectionOverlay(slot, cache) ==
  IF StartOf(slot) < 0 \/ EndOf(slot) < 0 \/ StartOf(slot) >= EndOf(slot)
     \/ cache.hourHeight <= 0
  THEN "fallback"
  ELSE "selection"

(***************************************************************************)
(* DragHandler                                                             *)
(***************************************************************************)
DragIdle ==
  [isDragging |-> FALSE, startX |-> 0, startY |-> 0, currentX |-> 0,
   currentY |-> 0, dateColumn |-> NoColumn, tempOverlay |-> "none"]

\* the candidate taking its start where the drag began and its end where it
\* stopped, whichever is higher
CandidateSlotStartToCurrent(ds, cache, v) ==
  LET startTime == getTimeFromY(ds.startY, ds.dateColumn.element, cache, v)
      endTime == getTimeFromY(ds.currentY, ds.dateColumn.element, cache, v)
  IN [date |-> ds.dateColumn.date,
      startHour |-> startTime.hour, startMin |-> startTime.minute,
      endHour |-> endTime.hour, endMin |-> endTime.minute,
      overlay |-> "none", column |-> ds.dateColumn]

\* the slot handleMouseUp builds from the drag and the current geometry
CandidateSlot(ds, cache, v) ==
  LET startTime == getTimeFromY(Min(ds.startY, ds.currentY), ds.dateColumn.element, cache, v)
      endTime == getTimeFromY(Max(ds.startY, ds.currentY), ds.dateColumn.element, cache, v)
  IN [date |-> ds.dateColumn.date,
      startHour |-> startTime.hour, startMin |-> startTime.minute,
      endHour |-> endTime.hour, endMin |-> endTime.minute,
      overlay |-> "none", column |-> ds.dateColumn]

\* the drag begins: coordinates captured, column locked
BeginDrag(ds, p, column) ==
  [ds EXCEPT !.isDragging = TRUE, !.startX = p[1], !.startY = p[2],
             !.currentX = p[1], !.currentY = p[2], !.dateColumn = column]

\* handleMouseDown of the grid-overlay build
handleMouseDown(ds, p, cache) ==
  LET column == getColumnFromX(p[1], cache)
  IN IF column = NoColumn THEN ds ELSE BeginDrag(ds, p, column)

\* handleMouseDown of the document-listener build
handleMouseDownDocument(ds, p, cache, modeActive, panelIsDragging) ==
  LET column == getColumnFromX(p[1], cache)
  IN IF ~modeActive THEN ds
     ELSE IF panelIsDragging THEN ds
     ELSE IF column = NoColumn THEN ds
     ELSE BeginDrag(ds, p, column)

\* handleMouseMove following the pointer into any column: shows what
\* DragStaysInLockedColumn owes to the clamp of currentX
handleMouseMoveFollowsPointer(ds, p, cache, v) ==
  IF ~ds.isDragging \/ ds.dateColumn = NoColumn THEN ds
  ELSE [ds EXCEPT !.currentX = p[1], !.currentY = p[2],
                  !.tempOverlay = updateTempOverlay(ds.dateColumn, ds.tempOverlay, v)]

\* handleMouseMove, the same in both builds
handleMouseMove(ds, p, cache, v) ==
  IF ~ds.isDragging \/ ds.dateColumn = NoColumn THEN ds
  ELSE
    LET currentColumn == getColumnFromX(p[1], cache)
        x == IF currentColumn = NoColumn
                \/ currentColumn.dateKey # ds.dateColumn.dateKey
             THEN ds.startX ELSE p[1]
    IN [ds EXCEPT !.currentX = x, !.currentY = p[2],
                  !.tempOverlay = updateTempOverlay(ds.dateColumn, ds.tempOverlay, v)]

\* handleMouseUp without the MIN_DRAG_DISTANCE_PX test
handleMouseUpNoMinDistance(ds, s, cache, v) ==
  IF ~ds.isDragging \/ ds.dateColumn = NoColumn
  THEN [drag |-> ds, slots |-> s, created |-> <<>>]
  ELSE
    LET slot == CandidateSlot(ds, cache, v)
        stored == [slot EXCEPT !.overlay = createSelectionOverlay(slot, cache)]
        done == [ds EXCEPT !.isDragging = FALSE, !.tempOverlay = "none"]
    IN IF ~isDuplicate(s, slot)
       THEN [drag |-> done, slots |-> addSlot(s, stored), created |-> <<stored>>]
       ELSE [drag |-> done, slots |-> s, created |-> <<>>]

\* handleMouseUp without the isDuplicate test
handleMouseUpNoDuplicateCheck(ds, s, cache, v) ==
  IF ~ds.isDragging \/ ds.dateColumn = NoColumn
  THEN [drag |-> ds, slots |-> s, created |-> <<>>]
  ELSE
    LET deltaY == Abs(ds.currentY - ds.startY)
        slot == CandidateSlot(ds, cache, v)
        stored == [slot EXCEPT !.overlay = createSelectionOverlay(slot, cache)]
        done == [ds EXCEPT !.isDragging = FALSE, !.tempOverlay = "none"]
    IN IF deltaY < MIN_DRAG_DISTANCE_PX
       THEN [drag |-> done, slots |-> s, created |-> <<>>]
       ELSE [drag |-> done, slots |-> addSlot(s, stored), created |-> <<stored>>]

\* handleMouseUp leaving the temporary overlay in place on a rejected drag
handleMouseUpKeepsOverlay(ds, s, cache, v) ==
  IF ~ds.isDragging \/ ds.dateColumn = NoColumn
  THEN [drag |-> ds, slots |-> s, created |-> <<>>]
  ELSE
    LET deltaY == Abs(ds.currentY - ds.startY)
        slot == CandidateSlot(ds, cache, v)
        stored == [slot EXCEPT !.overlay = createSelectionOverlay(slot, cache)]
        done == [ds EXCEPT !.isDragging = FALSE, !.tempOverlay = "none"]
    IN IF deltaY < MIN_DRAG_DISTANCE_PX
       THEN [drag |-> [ds EXCEPT !.isDragging = FALSE], slots |-> s, created |-> <<>>]
       ELSE IF ~isDuplicate(s, slot)
            THEN [drag |-> done, slots |-> addSlot(s, stored), created |-> <<stored>>]
            ELSE [drag |-> done, slots |-> s, created |-> <<>>]

\* handleMouseUp building the permanent overlay before it tests the
\* candidate against the store: shows what SelectionOverlaysBelongToSlots
\* owes to the overlay being created in the branch that stores the slot
handleMouseUpOverlayFirst(ds, s, cache, v) ==
  IF ~ds.isDragging \/ ds.dateColumn = NoColumn
  THEN [drag |-> ds, slots |-> s, created |-> <<>>]
  ELSE
    LET deltaY == Abs(ds.currentY - ds.startY)
        slot == CandidateSlot(ds, cache, v)
        stored == [slot EXCEPT !.overlay = createSelectionOverlay(slot, cache)]
        done == [ds EXCEPT !.isDragging = FALSE, !.tempOverlay = "none"]
    IN IF deltaY < MIN_DRAG_DISTANCE_PX
       THEN [drag |-> done, slots |-> s, created |-> <<>>]
       ELSE IF ~isDuplicate(s, slot)
            THEN [drag |-> done, slots |-> addSlot(s, stored), created |-> <<stored>>]
            ELSE [drag |-> done, slots |-> s, created |-> <<stored>>]

\* handleMouseUp, the same in both builds: the new drag state, the new store
\* and the slots it has built a permanent overlay for
handleMouseUp(ds, s, cache, v) ==
  IF ~ds.isDragging \/ ds.dateColumn = NoColumn
  THEN [drag |-> ds, slots |-> s, created |-> <<>>]
  ELSE
    LET deltaY == Abs(ds.currentY - ds.startY)
        slot == CandidateSlot(ds, cache, v)
        stored == [slot EXCEPT !.overlay = createSelectionOverlay(slot, cache)]
        done == [ds EXCEPT !.isDragging = FALSE, !.tempOverlay = "none"]
    IN IF deltaY < MIN_DRAG_DISTANCE_PX
       THEN [drag |-> done, slots |-> s, created |-> <<>>]
       ELSE IF ~isDuplicate(s, slot)
            THEN [drag |-> done, slots |-> addSlot(s, stored), created |-> <<stored>>]
            ELSE [drag |-> done, slots |-> s, created |-> <<>>]

(***************************************************************************)
(* The state after a successful init().                                    *)
(***************************************************************************)
\* no trigger has happened yet
TimersIdle ==
  /\ now = 0
  /\ pendingTimers = [d \in Debouncers |-> {}]
  /\ updateTimeout = [d \in Debouncers |-> 0]
  /\ lastTrigger = [d \in Debouncers |-> -1]
  /\ handlerRuns = [d \in Debouncers |-> 0]

\* nothing of the application is on the page
PageEmpty ==
  [panel |-> FALSE, gridOverlay |-> FALSE, dragListeners |-> FALSE,
   observer |-> FALSE, scrollHandlers |-> FALSE, disabled |-> {},
   overlays |-> NoOverlays]

\* all that a successful init() puts there
PageSetUp ==
  [panel |-> TRUE, gridOverlay |-> TRUE, dragListeners |-> TRUE,
   observer |-> TRUE, scrollHandlers |-> TRUE, disabled |-> {},
   overlays |-> NoOverlays]

\* a listener that has not been called yet
Listener(id) == [id |-> id, received |-> <<>>]

\* init() has succeeded at the first check: the panel and then init() itself
\* have subscribed to the Mode Controller
Started ==
  /\ listeners = << Listener("panel"), Listener("overlay") >>
  /\ uncaught = FALSE
  /\ startup = [phase |-> "ready", elapsed |-> 0, calendarMain |-> TRUE,
                analyzeCalls |-> 1, notification |-> FALSE]
  /\ page = [PageSetUp EXCEPT !.overlays = WithOverlays(NoOverlays, slots)]

InitialCache == [hourHeight |-> GCAL_HOUR_HEIGHT_PX, gridTop |-> 0, columns |-> <<>>]

Init ==
  /\ variant \in Variants
  /\ hostView \in {v \in ViewIds : analyze(InitialCache, v).ok}
  /\ gridCache = analyze(InitialCache, hostView).cache
  /\ slots = <<>>
  /\ dragState = DragIdle
  /\ panelDragging = FALSE
  /\ buttonDown = FALSE
  /\ isActive = FALSE
  /\ gridOverlayPE = "none"
  /\ previousDateKeys =
       IF variant = "overlay" THEN getVisibleDateKeys(gridCache) ELSE {}
  /\ calendarTimeout = FALSE
  /\ scrollTimeout = FALSE
  /\ TimersIdle
  /\ Started

(***************************************************************************)
(* Pointer events.  In the overlay build the DragHandler listens on the    *)
(* grid overlay, which receives an event only while its pointer-events are *)
(* enabled and the panel (stacked above it) is not under the pointer.  In  *)
(* the document build it listens on document and receives every event,    *)
(* after the panel's own listeners have run.                               *)
(***************************************************************************)
Delivered(over) ==
  IF variant = "overlay" THEN over = "grid" /\ gridOverlayPE = "auto" ELSE TRUE

MouseDown(p, over) ==
  /\ ~buttonDown
  /\ Len(slots) < MaxSlots
  /\ buttonDown' = TRUE
  /\ panelDragging' = (variant = "document" /\ (panelDragging \/ over = "panelHeader"))
  /\ dragState' =
       IF ~Delivered(over) THEN dragState
       ELSE IF variant = "overlay" THEN handleMouseDown(dragState, p, gridCache)
       ELSE handleMouseDownDocument(dragState, p, gridCache, isActive, panelDragging')
  /\ UNCHANGED << variant, hostView, gridCache, slots, isActive, gridOverlayPE,
                  previousDateKeys, calendarTimeout, scrollTimeout >>
  /\ UNCHANGED << timerVars, modeVars, startup, page >>

MouseMove(p, over) ==
  /\ dragState' =
       IF Delivered(over) THEN handleMouseMove(dragState, p, gridCache, hostView)
       ELSE dragState
  /\ UNCHANGED << variant, hostView, gridCache, slots, panelDragging, buttonDown,
                  isActive, gridOverlayPE, previousDateKeys, calendarTimeout,
                  scrollTimeout >>
  /\ UNCHANGED << timerVars, modeVars, startup, page >>

MouseUp(over) ==
  /\ buttonDown
  /\ buttonDown' = FALSE
  /\ panelDragging' = FALSE
  /\ \E r \in {IF Delivered(over)
               THEN handleMouseUp(dragState, slots, gridCache, hostView)
               ELSE [drag |-> dragState, slots |-> slots, created |-> <<>>]} :
       /\ dragState' = r.drag
       /\ slots' = r.slots
       /\ page' = [page EXCEPT !.overlays = WithOverlays(@, r.created)]
  /\ UNCHANGED << variant, hostView, gridCache, isActive, gridOverlayPE,
                  previousDateKeys, calendarTimeout, scrollTimeout >>
  /\ UNCHANGED << timerVars, modeVars, startup >>

(***************************************************************************)
(* Panel buttons.                                                          *)
(***************************************************************************)
\* a toggle whose deactivation also abandons the drag in progress: shows
\* that DeactivationKeepsDrag is decided by what toggle leaves alone
toggleResetsDrag ==
  /\ isActive' = ~isActive
  /\ gridOverlayPE' =
       IF variant = "overlay" THEN (IF isActive' THEN "auto" ELSE "none")
       ELSE gridOverlayPE
  /\ dragState' = IF isActive THEN DragIdle ELSE dragState
  /\ UNCHANGED << variant, hostView, gridCache, slots, panelDragging,
                  buttonDown, previousDateKeys, calendarTimeout, scrollTimeout >>
  /\ UNCHANGED << timerVars, modeVars, startup, page >>

\* SelectionModeManager.toggle() and the listener init() registered
toggle ==
  /\ isActive' = ~isActive
  /\ gridOverlayPE' =
       IF variant = "overlay" THEN (IF isActive' THEN "auto" ELSE "none")
       ELSE gridOverlayPE
  /\ UNCHANGED << variant, hostView, gridCache, slots, dragState, panelDragging,
                  buttonDown, previousDateKeys, calendarTimeout, scrollTimeout >>
  /\ UNCHANGED << timerVars, modeVars, startup, page >>

RemoveSlot(i) ==
  /\ i \in 1..Len(slots)
  /\ slots' = removeSlot(slots, i)
  /\ page' = [page EXCEPT !.overlays = WithoutOverlays(@, << slots[i] >>)]
  /\ UNCHANGED << variant, hostView, gridCache, dragState, panelDragging,
                  buttonDown, isActive, gridOverlayPE, previousDateKeys,
                  calendarTimeout, scrollTimeout >>
  /\ UNCHANGED << timerVars, modeVars, startup >>

ClearAll ==
  /\ Len(slots) > 0
  /\ slots' = clearAll(slots)
  /\ page' = [page EXCEPT !.overlays = WithoutOverlays(@, slots)]
  /\ UNCHANGED << variant, hostView, gridCache, dragState, panelDragging,
                  buttonDown, isActive, gridOverlayPE, previousDateKeys,
                  calendarTimeout, scrollTimeout >>
  /\ UNCHANGED << timerVars, modeVars, startup >>

(***************************************************************************)
(* The host page and Viewport Sync (overlay build only).                   *)
(***************************************************************************)
\* the host re-renders another view; its child-list mutations reach the
\* MutationObserver, which (re)arms the debounce timer
HostNavigate(v) ==
  /\ v # hostView
  /\ hostView' = v
  /\ calendarTimeout' =
       IF page.observer THEN variant = "overlay" ELSE calendarTimeout
  /\ page' = [page EXCEPT !.disabled = {el \in @ : IsAttached(el, v)}]
  /\ UNCHANGED << variant, gridCache, slots, dragState, panelDragging, buttonDown,
                  isActive, gridOverlayPE, previousDateKeys, scrollTimeout >>
  /\ UNCHANGED << timerVars, modeVars, startup >>

\* a host mutation that leaves the view as it is
HostMutation ==
  /\ variant = "overlay"
  /\ page.observer
  /\ ~calendarTimeout
  /\ calendarTimeout' = TRUE
  /\ UNCHANGED << variant, hostView, gridCache, slots, dragState, panelDragging,
                  buttonDown, isActive, gridOverlayPE, previousDateKeys,
                  scrollTimeout >>
  /\ UNCHANGED << timerVars, modeVars, startup, page >>

ScrollOrResize ==
  /\ variant = "overlay"
  /\ page.scrollHandlers
  /\ ~scrollTimeout
  /\ scrollTimeout' = TRUE
  /\ UNCHANGED << variant, hostView, gridCache, slots, dragState, panelDragging,
                  buttonDown, isActive, gridOverlayPE, previousDateKeys,
                  calendarTimeout >>
  /\ UNCHANGED << timerVars, modeVars, startup, page >>

\* the debounced callback without its early return on a failed analysis:
\* shows what FailedReanalysisKeepsSlots owes to it
CalendarTimeoutFiresFiltersOnFailure ==
  /\ calendarTimeout
  /\ calendarTimeout' = FALSE
  /\ \E r \in {analyze(gridCache, hostView)} :
     \E visibleDateKeys \in {getVisibleDateKeys(r.cache)} :
     LET dateKeysChanged ==
           \/ Cardinality(previousDateKeys) # Cardinality(visibleDateKeys)
           \/ ~(\A key \in previousDateKeys : key \in visibleDateKeys)
     IN /\ gridCache' = r.cache
        /\ IF dateKeysChanged
           THEN \E f \in {filterByVisibleDatesEffects(slots, visibleDateKeys)} :
                  /\ slots' = f.slots
                  /\ page' = [page EXCEPT !.overlays = WithoutOverlays(@, f.removed)]
                  /\ previousDateKeys' = visibleDateKeys
           ELSE UNCHANGED << slots, previousDateKeys, page >>
  /\ UNCHANGED << variant, hostView, dragState, panelDragging, buttonDown,
                  isActive, gridOverlayPE, scrollTimeout >>
  /\ UNCHANGED << timerVars, modeVars, startup >>

\* the debounced callback of setupCalendarObserver
CalendarTimeoutFires ==
  /\ calendarTimeout
  /\ calendarTimeout' = FALSE
  /\ \E r \in {analyze(gridCache, hostView)} :
     \E visibleDateKeys \in {getVisibleDateKeys(r.cache)} :
     LET dateKeysChanged ==
           \/ Cardinality(previousDateKeys) # Cardinality(visibleDateKeys)
           \/ ~(\A key \in previousDateKeys : key \in visibleDateKeys)
     IN /\ gridCache' = r.cache
        /\ IF r.ok /\ dateKeysChanged
           THEN \E f \in {filterByVisibleDatesEffects(slots, visibleDateKeys)} :
                  /\ slots' = f.slots
                  /\ page' = [page EXCEPT !.overlays = WithoutOverlays(@, f.removed)]
                  /\ previousDateKeys' = visibleDateKeys
           ELSE UNCHANGED << slots, previousDateKeys, page >>
  /\ UNCHANGED << variant, hostView, dragState, panelDragging, buttonDown,
                  isActive, gridOverlayPE, scrollTimeout >>
  /\ UNCHANGED << timerVars, modeVars, startup >>

\* the debounced callback of setupScrollResizeHandlers
ScrollTimeoutFires ==
  /\ scrollTimeout
  /\ scrollTimeout' = FALSE
  /\ gridCache' = IF isActive THEN analyze(gridCache, hostView).cache ELSE gridCache
  /\ UNCHANGED << variant, hostView, slots, dragState, panelDragging, buttonDown,
                  isActive, gridOverlayPE, previousDateKeys, calendarTimeout >>
  /\ UNCHANGED << timerVars, modeVars, startup, page >>

Next ==
  \/ \E p \in Points, over \in Targets : MouseDown(p, over)
  \/ \E p \in Points, over \in Targets : MouseMove(p, over)
  \/ \E over \in Targets : MouseUp(over)
  \/ toggle
  \/ \E i \in 1..MaxSlots : RemoveSlot(i)
  \/ ClearAll
  \/ \E v \in ViewIds : HostNavigate(v)
  \/ HostMutation
  \/ ScrollOrResize
  \/ CalendarTimeoutFires
  \/ ScrollTimeoutFires

Spec == Init /\ [][Next]_vars

TypeOK ==
  /\ variant \in Variants
  /\ hostView \in AnalyzeViewIds
  /\ Len(slots) <= MaxSlots
  /\ dragState.tempOverlay \in {"none", "temp", "fallback"}
  /\ gridOverlayPE \in {"none", "auto"}

(***************************************************************************)
(* The Grid Analyzer and Viewport Sync on their own: the grid-overlay      *)
(* build, on every host view, with a store of earlier selections and no    *)
(* pointer events.                                                         *)
(***************************************************************************)
GridSlot(c, sh, eh) ==
  [date |-> c.date, startHour |-> sh, startMin |-> 0, endHour |-> eh,
   endMin |-> 0, overlay |-> "selection", column |-> c]

\* selections a user can have made on the columns of a cache
GridSlotPool(cache) ==
  {GridSlot(cache.columns[i], t, t + 1) : i \in 1..Len(cache.columns), t \in {9, 10}}

\* the stores of at most MaxSlots of them, as addSlot leaves them
GridStores(cache) ==
  {sortSlots(f) : f \in
     {g \in UNION {[1..n -> GridSlotPool(cache)] : n \in 0..MaxSlots} :
        \A i, j \in DOMAIN g : i # j => g[i] # g[j]}}

GridInit ==
  /\ variant = "overlay"
  /\ hostView \in {v \in GridViewIds : analyze(InitialCache, v).ok}
  /\ gridCache = analyze(InitialCache, hostView).cache
  /\ slots \in GridStores(gridCache)
  /\ dragState = DragIdle
  /\ panelDragging = FALSE
  /\ buttonDown = FALSE
  /\ isActive = FALSE
  /\ gridOverlayPE = "none"
  /\ previousDateKeys = getVisibleDateKeys(gridCache)
  /\ calendarTimeout = FALSE
  /\ scrollTimeout = FALSE
  /\ TimersIdle
  /\ Started

GridNext ==
  \/ toggle
  \/ \E v \in GridViewIds : HostNavigate(v)
  \/ HostMutation
  \/ ScrollOrResize
  \/ CalendarTimeoutFires
  \/ ScrollTimeoutFires

SpecGrid == GridInit /\ [][GridNext]_vars

(***************************************************************************)
(* The Grid Analyzer on every host view, with an empty store.              *)
(***************************************************************************)
\* init() has run on one of the week views the pointer machine starts from
AnalyzeInit ==
  /\ variant = "overlay"
  /\ hostView \in {v \in ViewIds : analyze(InitialCache, v).ok}
  /\ gridCache = analyze(InitialCache, hostView).cache
  /\ slots = <<>>
  /\ dragState = DragIdle
  /\ panelDragging = FALSE
  /\ buttonDown = FALSE
  /\ isActive = FALSE
  /\ gridOverlayPE = "none"
  /\ previousDateKeys = getVisibleDateKeys(gridCache)
  /\ calendarTimeout = FALSE
  /\ scrollTimeout = FALSE
  /\ TimersIdle
  /\ Started

AnalyzeNext ==
  \/ \E v \in AnalyzeViewIds : HostNavigate(v)
  \/ HostMutation
  \/ CalendarTimeoutFires

SpecAnalyze == AnalyzeInit /\ [][AnalyzeNext]_vars

(***************************************************************************)
(* The Selection Store on its own: candidates of every shape are offered   *)
(* to the duplicate test that guards addSlot, slots are removed, and the   *)
(* store is filtered by every set of date keys.                            *)
(***************************************************************************)
\* three columns: day 1, day 2, and day 2 again in a re-created element
StoreColumns ==
  {ToColumn(HostViews[1][3], 1), ToColumn(HostViews[1][1], 1),
   ToColumn(HostViews[2][1], 2)}

StoreDateKeys == {c.dateKey : c \in StoreColumns}

\* well-formed candidates, each a freshly built object with its own overlay
StoreCandidates ==
  {[date |-> c.date, startHour |-> sh, startMin |-> 0, endHour |-> eh,
    endMin |-> em, overlay |-> "selection", column |-> c] :
     c \in StoreColumns, sh \in {9, 10}, eh \in {10, 11}, em \in {0, SNAP_MINUTES}}

\* a missing slot, and slots whose date is missing or an invalid Date
MalformedCandidates ==
  {NullSlot} \cup
  {[date |-> d, startHour |-> 9, startMin |-> 0, endHour |-> 10, endMin |-> 0,
    overlay |-> "selection", column |-> c] : d \in {NoDate, 0}, c \in StoreColumns}

\* the guarded insertion at the end of a drag
StoreAdd(c) ==
  /\ Len(slots) < MaxSlots
  /\ slots' = IF isDuplicate(slots, c) THEN slots ELSE addSlot(slots, c)
  /\ page' = IF isDuplicate(slots, c) THEN page
             ELSE [page EXCEPT !.overlays = WithOverlays(@, << c >>)]
  /\ UNCHANGED << variant, hostView, gridCache, dragState, panelDragging,
                  buttonDown, isActive, gridOverlayPE, previousDateKeys,
                  calendarTimeout, scrollTimeout >>
  /\ UNCHANGED << timerVars, modeVars, startup >>

StoreFilter(visibleDateKeys) ==
  /\ slots' = filterByVisibleDatesEffects(slots, visibleDateKeys).slots
  /\ page' = [page EXCEPT !.overlays =
                WithoutOverlays(@, filterByVisibleDatesEffects(slots, visibleDateKeys).removed)]
  /\ UNCHANGED << variant, hostView, gridCache, dragState, panelDragging,
                  buttonDown, isActive, gridOverlayPE, previousDateKeys,
                  calendarTimeout, scrollTimeout >>
  /\ UNCHANGED << timerVars, modeVars, startup >>

StoreInit == Init /\ variant = "overlay"

StoreNext ==
  \/ \E c \in StoreCandidates \cup MalformedCandidates : StoreAdd(c)
  \/ \E i \in 1..MaxSlots : RemoveSlot(i)
  \/ ClearAll
  \/ \E visibleDateKeys \in SUBSET StoreDateKeys : StoreFilter(visibleDateKeys)

SpecStore == StoreInit /\ [][StoreNext]_vars

(***************************************************************************)
(* SelectionModeManager with its listeners, from its construction on.      *)
(***************************************************************************)
\* notifyListeners letting a listener's exception end the loop and escape
notifyListenersNoCatch(ls, state) ==
  LET throwing == {i \in 1..Len(ls) : Throws(ls[i].id)}
      last == IF throwing = {} THEN Len(ls)
              ELSE CHOOSE i \in throwing : \A j \in throwing : i <= j
  IN [isActive |-> state,
      listeners |-> [i \in 1..Len(ls) |->
                       IF i <= last THEN [ls[i] EXCEPT !.received = Append(@, state)]
                       ELSE ls[i]],
      threw |-> throwing # {}]

\* the loop of notifyListeners handing every listener the state as it was
\* when the loop began
RECURSIVE NotifyCapturedFrom(_, _, _)
NotifyCapturedFrom(m, i, value) ==
  IF i > Len(m.listeners) THEN m
  ELSE
    LET l == m.listeners[i]
        called == [m EXCEPT !.listeners[i].received = Append(@, value)]
        call == Reenters(l.id, l.received, value)
        after ==
          IF call = "toggle"
          THEN NotifyCapturedFrom([called EXCEPT !.isActive = ~@], 1, ~called.isActive)
          ELSE IF call = "activate" /\ ~called.isActive
          THEN NotifyCapturedFrom([called EXCEPT !.isActive = TRUE], 1, TRUE)
          ELSE IF call = "deactivate" /\ called.isActive
          THEN NotifyCapturedFrom([called EXCEPT !.isActive = FALSE], 1, FALSE)
          ELSE called
    IN NotifyCapturedFrom(after, i + 1, value)

\* notifyListeners reading this.isActive once, before the loop: shows what
\* LastDeliveredIsCurrent owes to the read inside the loop
notifyListenersCapturedState(ls, state) ==
  NotifyCapturedFrom([isActive |-> state, listeners |-> ls, threw |-> FALSE], 1, state)

\* the loop of notifyListeners from the i-th listener on.  Each listener is
\* called with this.isActive as it is at that moment, inside its own
\* try/catch; a listener that calls toggle(), activate() or deactivate()
\* runs that call, with its own notification of every listener, to the end
\* before the loop goes on.
RECURSIVE NotifyFrom(_, _)
NotifyFrom(m, i) ==
  IF i > Len(m.listeners) THEN m
  ELSE
    LET l == m.listeners[i]
        value == m.isActive
        called == [m EXCEPT !.listeners[i].received = Append(@, value)]
        call == Reenters(l.id, l.received, value)
        after ==
          IF call = "toggle"
          THEN NotifyFrom([called EXCEPT !.isActive = ~@], 1)
          ELSE IF call = "activate" /\ ~called.isActive
          THEN NotifyFrom([called EXCEPT !.isActive = TRUE], 1)
          ELSE IF call = "deactivate" /\ called.isActive
          THEN NotifyFrom([called EXCEPT !.isActive = FALSE], 1)
          ELSE called
    IN NotifyFrom(after, i + 1)

\* notifyListeners, called with this.isActive just set to state: the state
\* and the listeners it leaves; nothing is thrown to the caller
notifyListeners(ls, state) ==
  NotifyFrom([isActive |-> state, listeners |-> ls, threw |-> FALSE], 1)

\* the attached elements of the cached columns: those whose style
\* showGridOverlay and hideGridOverlay set on the page
ColumnElements(cache, v) ==
  {cache.columns[i].element : i \in 1..Len(cache.columns)}
    \cap {DomElements(v)[i].element : i \in 1..Len(DomElements(v))}

\* the state is set, then the listeners are notified; the listener of init()
\* shows or hides the grid overlay when it is called with the overlay in
\* place: showGridOverlay sets pointer-events 'none' on the element of every
\* cached column, hideGridOverlay resets it on the same
SetAndNotify(state) ==
  LET r == notifyListeners(listeners, state)
      overlayCalled ==
        \E i \in 1..Len(listeners) :
          listeners[i].id = "overlay" /\ r.listeners[i].received # listeners[i].received
      shown ==
        \E i \in 1..Len(listeners) :
          /\ listeners[i].id = "overlay"
          /\ r.listeners[i].received[Len(r.listeners[i].received)]
  IN /\ isActive' = r.isActive
     /\ listeners' = r.listeners
     /\ uncaught' = (uncaught \/ r.threw)
     /\ gridOverlayPE' =
          IF overlayCalled /\ page.gridOverlay
          THEN (IF shown THEN "auto" ELSE "none")
          ELSE gridOverlayPE
     /\ page' =
          IF overlayCalled /\ page.gridOverlay
          THEN [page EXCEPT !.disabled =
                  IF shown THEN @ \cup ColumnElements(gridCache, hostView)
                  ELSE @ \ ColumnElements(gridCache, hostView)]
          ELSE page
     /\ UNCHANGED << variant, hostView, gridCache, slots, dragState, panelDragging,
                     buttonDown, previousDateKeys, calendarTimeout, scrollTimeout,
                     timerVars, startup >>

CanNotify == \A i \in 1..Len(listeners) : Len(listeners[i].received) < MaxNotifications

\* activate() notifying whether or not the state changes
ActivateAlwaysNotifies == CanNotify /\ SetAndNotify(TRUE)

\* deactivate() implemented as toggle()
DeactivateToggles == CanNotify /\ SetAndNotify(~isActive)

Toggle == CanNotify /\ SetAndNotify(~isActive)

Activate ==
  /\ CanNotify
  /\ IF ~isActive THEN SetAndNotify(TRUE) ELSE UNCHANGED vars

Deactivate ==
  /\ CanNotify
  /\ IF isActive THEN SetAndNotify(FALSE) ELSE UNCHANGED vars

\* listeners is a Set: adding a listener it holds changes nothing.  init()
\* subscribes its listener once the grid overlay is in the page.
AddListener(id) ==
  /\ listeners' =
       IF \E i \in 1..Len(listeners) : listeners[i].id = id THEN listeners
       ELSE Append(listeners, Listener(id))
  /\ page' = IF id = "overlay" THEN [page EXCEPT !.gridOverlay = TRUE] ELSE page
  /\ UNCHANGED << variant, hostView, gridCache, slots, dragState, panelDragging,
                  buttonDown, isActive, gridOverlayPE, previousDateKeys,
                  calendarTimeout, scrollTimeout, timerVars, uncaught, startup >>

RemoveListener(id) ==
  /\ listeners' = LET Other(l) == l.id # id IN SelectSeq(listeners, Other)
  /\ UNCHANGED << variant, hostView, gridCache, slots, dragState, panelDragging,
                  buttonDown, isActive, gridOverlayPE, previousDateKeys,
                  calendarTimeout, scrollTimeout, timerVars, uncaught, startup, page >>

\* the application object has been constructed and init() has not run yet
Constructed ==
  /\ variant = "overlay"
  /\ gridCache = InitialCache
  /\ slots = <<>>
  /\ dragState = DragIdle
  /\ panelDragging = FALSE
  /\ buttonDown = FALSE
  /\ isActive = FALSE
  /\ gridOverlayPE = "none"
  /\ previousDateKeys = {}
  /\ calendarTimeout = FALSE
  /\ scrollTimeout = FALSE
  /\ TimersIdle
  /\ listeners = <<>>
  /\ uncaught = FALSE
  /\ page = PageEmpty

StartupWaiting(containerPresent) ==
  [phase |-> "waiting", elapsed |-> 0, calendarMain |-> containerPresent,
   analyzeCalls |-> 0, notification |-> FALSE]

ModeInit ==
  /\ Constructed
  /\ hostView = 1
  /\ startup = StartupWaiting(TRUE)

ModeNext ==
  \/ Toggle
  \/ Activate
  \/ Deactivate
  \/ \E id \in ListenerIds : AddListener(id)
  \/ \E id \in ListenerIds : RemoveListener(id)

SpecMode == ModeInit /\ [][ModeNext]_vars

\* the Mode Controller with listeners that call it back
ReentrantNext ==
  \/ Toggle
  \/ Activate
  \/ Deactivate
  \/ \E id \in ReentrantListenerIds : AddListener(id)
  \/ \E id \in ReentrantListenerIds : RemoveListener(id)

SpecReentrant == ModeInit /\ [][ReentrantNext]_vars

(***************************************************************************)
(* TimeSlotSelectorApp.init(), from the construction of the application    *)
(* to the end of init(), while the host page loads and renders.            *)
(***************************************************************************)
\* the host page gets its [role="main"] container
HostLoadsContainer ==
  /\ startup.phase = "waiting"
  /\ ~startup.calendarMain
  /\ startup' = [startup EXCEPT !.calendarMain = TRUE]
  /\ UNCHANGED << variant, hostView, gridCache, slots, dragState, panelDragging,
                  buttonDown, isActive, gridOverlayPE, previousDateKeys,
                  calendarTimeout, scrollTimeout, timerVars, modeVars, page >>

\* the host page renders another view while init() waits; nothing observes it
HostRenders(v) ==
  /\ startup.phase = "waiting"
  /\ v # hostView
  /\ hostView' = v
  /\ UNCHANGED << variant, gridCache, slots, dragState, panelDragging, buttonDown,
                  isActive, gridOverlayPE, previousDateKeys, calendarTimeout,
                  scrollTimeout, timerVars, modeVars, startup, page >>

\* one run of waitForCalendar's interval callback and, when it resolves the
\* promise, the rest of init(), which follows without another task between:
\*  - no container: elapsed grows, and past INIT_TIMEOUT_MS init() logs and
\*    returns;
\*  - container found: analyze() is called once; if it fails init() throws
\*    into its own catch, which shows the error notification; otherwise the
\*    panel and the overlay are set up and their listeners registered.
InitCheck ==
  /\ startup.phase = "waiting"
  /\ IF ~startup.calendarMain
     THEN /\ startup' =
               [startup EXCEPT
                  !.elapsed = @ + INIT_CHECK_INTERVAL_MS,
                  !.phase = IF startup.elapsed + INIT_CHECK_INTERVAL_MS >= INIT_TIMEOUT_MS
                            THEN "timedOut" ELSE "waiting"]
          /\ UNCHANGED << gridCache, listeners, previousDateKeys, slots, page >>
     ELSE LET r == analyze(gridCache, hostView)
          IN /\ gridCache' = r.cache
             /\ IF r.ok
                THEN /\ startup' = [startup EXCEPT !.phase = "ready",
                                                   !.analyzeCalls = @ + 1]
                     /\ listeners' = listeners
                                       \o << Listener("panel"), Listener("overlay") >>
                     /\ previousDateKeys' = getVisibleDateKeys(r.cache)
                     /\ slots' = filterByVisibleDates(slots, getVisibleDateKeys(r.cache))
                     /\ page' = PageSetUp
                ELSE /\ startup' = [startup EXCEPT !.phase = "failed",
                                                   !.analyzeCalls = @ + 1,
                                                   !.notification = TRUE]
                     /\ UNCHANGED << listeners, previousDateKeys, slots, page >>
  /\ UNCHANGED << variant, hostView, dragState, panelDragging, buttonDown,
                  isActive, gridOverlayPE, calendarTimeout, scrollTimeout,
                  timerVars, uncaught >>

\* the same run of init() when the construction of the panel or of the grid
\* overlay fails after a successful analyze(): the exception (or the test of
\* line 131) leads to the catch of init(), which shows the error notification
\* and does nothing else.
\*  - "panel": createUIPanel throws before it appends the panel to the body;
\*  - "overlay": createGridOverlay throws or returns nothing; the panel is in
\*    the body by then, with its listeners and its subscription to the Mode
\*    Controller.
InitConstructionFails(step) ==
  /\ startup.phase = "waiting"
  /\ startup.calendarMain
  /\ LET r == analyze(gridCache, hostView)
     IN /\ r.ok
        /\ gridCache' = r.cache
  /\ startup' = [startup EXCEPT !.phase = "failed", !.analyzeCalls = @ + 1,
                                !.notification = TRUE]
  /\ IF step = "overlay"
     THEN /\ page' = [page EXCEPT !.panel = TRUE]
          /\ listeners' = Append(listeners, Listener("panel"))
     ELSE UNCHANGED << page, listeners >>
  /\ UNCHANGED << variant, hostView, slots, dragState, panelDragging, buttonDown,
                  isActive, gridOverlayPE, previousDateKeys, calendarTimeout,
                  scrollTimeout, timerVars, uncaught >>

StartupInit ==
  /\ Constructed
  /\ hostView \in GridViewIds
  /\ \E containerPresent \in BOOLEAN : startup = StartupWaiting(containerPresent)

StartupNext ==
  \/ HostLoadsContainer
  \/ \E v \in GridViewIds : HostRenders(v)
  \/ InitCheck
  \/ \E step \in {"panel", "overlay"} : InitConstructionFails(step)

SpecStartup == StartupInit /\ [][StartupNext]_vars

(***************************************************************************)
(* The application on the page, from a successful init() to cleanup() and  *)
(* after it: the panel's button, the host re-rendering, both debouncers.   *)
(***************************************************************************)
\* a click on the panel's selection-mode button
PanelToggle == page.panel /\ Toggle

\* cleanup(): the store is emptied, the drag listeners are detached, the
\* observer disconnected, the panel's listeners removed (its subscription to
\* the Mode Controller among them), the panel and the grid overlay taken out
\* of the page.  The pending timers, the scroll/resize handlers, the mode and
\* the styles set on the host's columns are not touched.
Cleanup ==
  /\ startup.phase = "ready"
  /\ startup' = [startup EXCEPT !.phase = "cleanedUp"]
  /\ slots' = clearAll(slots)
  /\ listeners' = LET Other(l) == l.id # "panel" IN SelectSeq(listeners, Other)
  /\ page' = [page EXCEPT !.dragListeners = FALSE, !.observer = FALSE,
                          !.panel = FALSE, !.gridOverlay = FALSE,
                          !.overlays = WithoutOverlays(@, slots)]
  /\ UNCHANGED << variant, hostView, gridCache, dragState, panelDragging,
                  buttonDown, isActive, gridOverlayPE, previousDateKeys,
                  calendarTimeout, scrollTimeout, timerVars, uncaught >>

AppInit == AnalyzeInit

AppNext ==
  \/ PanelToggle
  \/ \E v \in PageViewIds : HostNavigate(v)
  \/ HostMutation
  \/ ScrollOrResize
  \/ CalendarTimeoutFires
  \/ ScrollTimeoutFires
  \/ Cleanup

SpecApp == AppInit /\ [][AppNext]_vars

(***************************************************************************)
(* The conversion of pointer positions to times and columns: drags on the  *)
(* grid overlay over a wider set of positions and geometries, while the    *)
(* host may re-render the week.                                            *)
(***************************************************************************)
TimeInit ==
  /\ variant = "overlay"
  /\ hostView \in {v \in TimeViewIds : analyze(InitialCache, v).ok}
  /\ gridCache = analyze(InitialCache, hostView).cache
  /\ slots = <<>>
  /\ dragState = DragIdle
  /\ panelDragging = FALSE
  /\ buttonDown = FALSE
  /\ isActive = FALSE
  /\ gridOverlayPE = "none"
  /\ previousDateKeys = getVisibleDateKeys(gridCache)
  /\ calendarTimeout = FALSE
  /\ scrollTimeout = FALSE
  /\ TimersIdle
  /\ Started

TimeNext ==
  \/ toggle
  \/ \E p \in TimePoints : MouseDown(p, "grid")
  \/ \E p \in TimePoints : MouseMove(p, "grid")
  \/ MouseUp("grid")
  \/ ClearAll

SpecTime == TimeInit /\ [][TimeNext]_vars

(***************************************************************************)
(* The two debouncers in time (setupCalendarObserver, lines 208-246, and   *)
(* setupScrollResizeHandlers, lines 264-287).  A timer may fire at its due *)
(* tick or later.  What the handler does to the grid and the store is in   *)
(* CalendarTimeoutFires and ScrollTimeoutFires; here only whether it       *)
(* resets updateTimeout matters.                                           *)
(***************************************************************************)
\* a trigger that sets its timer without clearing the pending one
TriggerWithoutClear(d) ==
  /\ now + Window(d) <= MaxTicks
  /\ pendingTimers' = [pendingTimers EXCEPT ![d] = @ \cup {now + Window(d)}]
  /\ updateTimeout' = [updateTimeout EXCEPT ![d] = now + Window(d)]
  /\ lastTrigger' = [lastTrigger EXCEPT ![d] = now]
  /\ handlerRuns' = [handlerRuns EXCEPT ![d] = 0]
  /\ UNCHANGED << variant, hostView, gridCache, slots, dragState, panelDragging,
                  buttonDown, isActive, gridOverlayPE, previousDateKeys,
                  calendarTimeout, scrollTimeout, now, modeVars, startup, page >>

\* a mutation record, or a scroll or resize event: clearTimeout(updateTimeout)
\* if it is not null, then updateTimeout = setTimeout(...)
Trigger(d) ==
  /\ now + Window(d) <= MaxTicks
  /\ pendingTimers' =
       [pendingTimers EXCEPT ![d] =
          (IF updateTimeout[d] # 0 THEN @ \ {updateTimeout[d]} ELSE @)
            \cup {now + Window(d)}]
  /\ updateTimeout' = [updateTimeout EXCEPT ![d] = now + Window(d)]
  /\ lastTrigger' = [lastTrigger EXCEPT ![d] = now]
  /\ handlerRuns' = [handlerRuns EXCEPT ![d] = 0]
  /\ UNCHANGED << variant, hostView, gridCache, slots, dragState, panelDragging,
                  buttonDown, isActive, gridOverlayPE, previousDateKeys,
                  calendarTimeout, scrollTimeout, now, modeVars, startup, page >>

\* a due timer fires and its handler runs to completion; the mutation handler
\* returns before updateTimeout = null when analyze() fails
TimerFires(d, analyzed) ==
  /\ \E t \in pendingTimers[d] :
       /\ t <= now
       /\ pendingTimers' = [pendingTimers EXCEPT ![d] = @ \ {t}]
  /\ handlerRuns' = [handlerRuns EXCEPT ![d] = @ + 1]
  /\ updateTimeout' =
       IF d = "mutation" /\ ~analyzed THEN updateTimeout
       ELSE [updateTimeout EXCEPT ![d] = 0]
  /\ UNCHANGED << variant, hostView, gridCache, slots, dragState, panelDragging,
                  buttonDown, isActive, gridOverlayPE, previousDateKeys,
                  calendarTimeout, scrollTimeout, now, lastTrigger, modeVars,
                  startup, page >>

Tick ==
  /\ now < MaxTicks
  /\ now' = now + 1
  /\ UNCHANGED << variant, hostView, gridCache, slots, dragState, panelDragging,
                  buttonDown, isActive, gridOverlayPE, previousDateKeys,
                  calendarTimeout, scrollTimeout, pendingTimers, updateTimeout,
                  lastTrigger, handlerRuns, modeVars, startup, page >>

DebounceInit == Init /\ variant = "overlay"

DebounceNext ==
  \/ \E d \in Debouncers : Trigger(d)
  \/ \E d \in Debouncers, analyzed \in BOOLEAN : TimerFires(d, analyzed)
  \/ Tick

\* time passes and the browser fires a timer that is due
SpecDebounce ==
  /\ DebounceInit
  /\ [][DebounceNext]_vars
  /\ WF_vars(Tick)
  /\ \A d \in Debouncers : WF_vars(\E analyzed \in BOOLEAN : TimerFires(d, analyzed))

(***************************************************************************)
(* Properties.  They are stated from the fields of the state, not through  *)
(* the operators above, so that each one is decided by what those do.      *)
(***************************************************************************)
\* two slots agree on the five fields of the uniqueness key
SameKey(a, b) ==
  /\ a.date = b.date
  /\ a.startHour = b.startHour /\ a.startMin = b.startMin
  /\ a.endHour = b.endHour /\ a.endMin = b.endMin

\* a pointer-up is about to be handled by handleMouseUp on a drag in progress
Dragging == dragState.isDragging /\ dragState.dateColumn # NoColumn

DragDistance == Abs(dragState.currentY - dragState.startY)

\* the slot the drag in progress stands for
Candidate == CandidateSlot(dragState, gridCache, hostView)

CandidateIsStored == \E i \in 1..Len(slots) : SameKey(slots[i], Candidate)

\* the last drag has been ended by handleMouseUp (its coordinates stay behind)
DragEnded == ~dragState.isDragging /\ dragState.dateColumn # NoColumn

\* C1: in every reachable state no two stored slots agree on
\* (date, startHour, startMin, endHour, endMin), whatever the interleaving of
\* drags, removals, clearAll, visibility filtering and re-analysis.
NoDuplicateSlots ==
  \A i, j \in 1..Len(slots) : i # j => ~SameKey(slots[i], slots[j])

\* two slots that differ in one field of the key only are stored together
NoDuplicateSlotsWitness ==
  /\ Len(slots) = 2
  /\ slots[1].date = slots[2].date
  /\ StartOf(slots[1]) = StartOf(slots[2])
  /\ EndOf(slots[1]) # EndOf(slots[2])

\* C2: the stored slots are always in ascending order of date, then of
\* startHour*60+startMin, after any sequence of additions, removals, clearAll
\* and visibility filtering.
SlotsSorted ==
  \A i, j \in 1..Len(slots) :
    i < j => \/ slots[i].date < slots[j].date
             \/ /\ slots[i].date = slots[j].date
                /\ slots[i].startHour * 60 + slots[i].startMin
                     <= slots[j].startHour * 60 + slots[j].startMin

\* two slots of one date are stored, ordered by their start, the earlier one
\* from the column of the drag that ended last
SlotsSortedWitness ==
  /\ Len(slots) = 2
  /\ slots[1].date = slots[2].date
  /\ StartOf(slots[1]) < StartOf(slots[2])
  /\ DragEnded
  /\ slots[1].column = dragState.dateColumn

\* C3: every stored slot starts before it ends, for every accepted drag
\* (vertical distance >= MIN_DRAG_DISTANCE_PX), however short it is and
\* wherever its endpoints lie relative to the top and the 24:00 bottom.
StoredSlotsStartBeforeEnd ==
  \A i \in 1..Len(slots) : StartOf(slots[i]) < EndOf(slots[i])

\* C4: a pointer-up on a drag of less than MIN_DRAG_DISTANCE_PX creates no
\* slot: the store is unchanged and the temporary overlay is removed.
ShortDragAddsNothing ==
  [][\A over \in Targets :
       (MouseUp(over) /\ Delivered(over) /\ Dragging
          /\ DragDistance < MIN_DRAG_DISTANCE_PX)
       => (slots' = slots /\ dragState'.tempOverlay = "none")]_vars

\* a drag that moved by less than the minimum has been ended
ShortDragAddsNothingWitness ==
  /\ DragEnded
  /\ dragState.currentY # dragState.startY
  /\ DragDistance < MIN_DRAG_DISTANCE_PX
  /\ dragState.tempOverlay = "none"

\* C5: a pointer-up on a drag of at least MIN_DRAG_DISTANCE_PX adds exactly
\* one slot, the candidate, when the candidate duplicates no stored slot, and
\* leaves the store as it is when it does; no other slot is altered.
LongDragAddsOneOrNone ==
  [][\A over \in Targets :
       (MouseUp(over) /\ Delivered(over) /\ Dragging
          /\ DragDistance >= MIN_DRAG_DISTANCE_PX)
       => IF CandidateIsStored
          THEN slots' = slots
          ELSE /\ Len(slots') = Len(slots) + 1
               /\ \E k \in 1..Len(slots') :
                    /\ SameKey(slots'[k], Candidate)
                    /\ slots'[k].column = dragState.dateColumn
                    /\ \A j \in 1..Len(slots) :
                         slots[j] = slots'[IF j < k THEN j ELSE j + 1]]_vars

\* a slot has been added and a second drag, long enough, stands for the same
\* range again
LongDragAddsOneOrNoneWitness ==
  /\ Len(slots) = 1
  /\ Dragging
  /\ DragDistance >= MIN_DRAG_DISTANCE_PX
  /\ CandidateIsStored

\* C6: after every pointer-up handled while Dragging, in either build, the
\* drag state is not dragging and holds no temporary overlay.
PointerUpEndsDrag ==
  [][\A over \in Targets :
       (MouseUp(over) /\ Delivered(over) /\ dragState.isDragging)
       => (~dragState'.isDragging /\ dragState'.tempOverlay = "none")]_vars

\* an accepted drag, which had shown its temporary overlay, has been ended
PointerUpEndsDragWitness ==
  /\ DragEnded
  /\ dragState.tempOverlay = "none"
  /\ dragState.currentY # dragState.startY
  /\ DragDistance >= MIN_DRAG_DISTANCE_PX
  /\ ~buttonDown

\* C7: a pointer-down takes the drag state from idle to dragging only if the
\* selection mode is active, the pointer is not over the floating panel and
\* getColumnFromX resolves a column; otherwise the drag state is unchanged;
\* on the transition startX/startY are the pointer's and the column is locked.
PointerDownStartsDragOnlyOnGrid ==
  [][\A p \in Points, over \in Targets :
       (MouseDown(p, over) /\ ~dragState.isDragging)
       => IF dragState'.isDragging
          THEN /\ isActive
               /\ over = "grid"
               /\ \E i \in 1..Len(gridCache.columns) :
                    /\ gridCache.columns[i].left <= p[1]
                    /\ p[1] <= gridCache.columns[i].right
                    /\ dragState'.dateColumn = gridCache.columns[i]
               /\ dragState'.startX = p[1]
               /\ dragState'.startY = p[2]
          ELSE dragState' = dragState]_vars

\* C8: a pointer-move whose X lies in another column, or in none, leaves
\* currentX at startX and the locked column as it is; the slot a pointer-up
\* adds carries the date and the dateKey of the column locked at pointer-down.
\* (A handled move changes nothing but the drag state and sets currentY to
\* the pointer's Y: only such steps and positions need to be looked at.)
DragStaysInLockedColumn ==
  [][/\ (Dragging /\ buttonDown' = buttonDown /\ slots' = slots
           /\ isActive' = isActive /\ hostView' = hostView
           /\ gridCache' = gridCache /\ calendarTimeout' = calendarTimeout
           /\ scrollTimeout' = scrollTimeout)
        => \A over \in Targets :
             Delivered(over)
             => \A p \in {q \in Points : q[2] = dragState'.currentY} :
                  MouseMove(p, over)
                  => /\ dragState'.dateColumn = dragState.dateColumn
                     /\ dragState'.startX = dragState.startX
                     /\ (\A i \in 1..Len(gridCache.columns) :
                           (gridCache.columns[i].left <= p[1]
                              /\ p[1] <= gridCache.columns[i].right)
                           => gridCache.columns[i].dateKey
                                # dragState.dateColumn.dateKey)
                        => dragState'.currentX = dragState.startX
     /\ Len(slots') > Len(slots)
        => \A over \in Targets :
             MouseUp(over)
             => /\ dragState.dateColumn.left <= dragState.startX
                /\ dragState.startX <= dragState.dateColumn.right
                /\ \A k \in 1..Len(slots') :
                     (\A j \in 1..Len(slots) : slots[j] # slots'[k])
                     => /\ slots'[k].date = dragState.dateColumn.date
                        /\ slots'[k].column.dateKey
                             = dragState.dateColumn.dateKey]_vars

\* a drag whose last move was to a position outside the locked column has
\* added its slot, with currentX still at startX
DragStaysInLockedColumnWitness ==
  /\ DragEnded
  /\ dragState.currentX = dragState.startX
  /\ \A p \in Points :
       p[2] = dragState.currentY
       => ~(dragState.dateColumn.left <= p[1] /\ p[1] <= dragState.dateColumn.right)
  /\ \E i \in 1..Len(slots) :
       /\ slots[i].column = dragState.dateColumn
       /\ SameKey(slots[i], Candidate)

SlotsVisibleAfterReanalysis ==
  [][(CalendarTimeoutFires /\ analyze(gridCache, hostView).ok)
       => \A i \in 1..Len(slots') :
            \E c \in 1..Len(gridCache'.columns) :
              gridCache'.columns[c].dateKey = slots'[i].column.dateKey]_vars

\* the page shows nothing analyze() can make a column of
NothingToAnalyze ==
  \A i \in 1..Len(DomElements(hostView)) :
    \/ DomElements(hostView)[i].height <= MIN_GRID_HEIGHT_PX
    \/ DomElements(hostView)[i].right - DomElements(hostView)[i].left <= 0
    \/ DomElements(hostView)[i].date = 0

\* C11: a debounced re-analysis that fails removes no slot and does not
\* filter: on the mutation path the store and the recorded key set stay as
\* they are, and the scroll/resize path never touches the store, so the
\* selections survive any number of failed runs.
FailedReanalysisKeepsSlots ==
  [][/\ (CalendarTimeoutFires /\ NothingToAnalyze)
        => (slots' = slots /\ previousDateKeys' = previousDateKeys)
     /\ ScrollTimeoutFires => slots' = slots]_vars

\* the mutation-driven run has failed on a page whose dates do not resolve,
\* the cached columns are gone and the selections are still there
FailedReanalysisKeepsSlotsWitness ==
  /\ hostView = 3
  /\ ~calendarTimeout
  /\ gridCache.columns = <<>>
  /\ Len(slots) = MaxSlots

\* C12: every debounced trigger, from a host mutation or from a scroll or
\* resize, with the selection mode on or off, re-runs the Grid Analyzer and,
\* when the analysis succeeds with a visible dateKey set other than the one
\* recorded, prunes the store to the slots of visible dates.
EveryTriggerReanalysesAndPrunes ==
  [][(CalendarTimeoutFires \/ ScrollTimeoutFires)
       => LET r == analyze(gridCache, hostView)
              visible == {r.cache.columns[i].dateKey : i \in 1..Len(r.cache.columns)}
          IN /\ gridCache' = r.cache
             /\ (r.ok /\ visible # previousDateKeys)
                => \A i \in 1..Len(slots') : slots'[i].column.dateKey \in visible]_vars

\* C13: each debouncer has at most one timer pending, the one its latest
\* trigger set (a trigger replaces the pending timer); its handler runs at
\* most once after that trigger, no earlier than a full window after it, and,
\* time passing, a pending timer does lead to that one run or is replaced.
OneRunPerBurst ==
  /\ [](\A d \in Debouncers :
          /\ Cardinality(pendingTimers[d]) <= 1
          /\ handlerRuns[d] <= 1
          /\ pendingTimers[d] # {}
             => (handlerRuns[d] = 0 /\ pendingTimers[d] = {lastTrigger[d] + Window(d)})
          /\ handlerRuns[d] = 1 => now >= lastTrigger[d] + Window(d))
  /\ \A d \in Debouncers :
       (pendingTimers[d] # {}) ~> (pendingTimers[d] = {} /\ handlerRuns[d] = 1)

\* both debouncers have been triggered, and the mutation debouncer's latest
\* trigger, at tick 2, has been followed by its single handler run
OneRunPerBurstWitness ==
  /\ lastTrigger["mutation"] = 2
  /\ handlerRuns["mutation"] = 1
  /\ pendingTimers["mutation"] = {}
  /\ lastTrigger["scroll"] >= 0

\* C14: whatever the store holds, a candidate with a valid date is reported
\* as a duplicate exactly when some stored slot has the same date, start
\* hour, start minute, end hour and end minute, whichever objects (column,
\* overlay) the two slots carry.  isDuplicate is a function of the store and
\* the candidate: it leaves the store as it is.
DuplicateIffSameKey ==
  \A c \in StoreCandidates :
    isDuplicate(slots, c) <=>
      \E i \in 1..Len(slots) :
        /\ slots[i].date = c.date
        /\ slots[i].startHour = c.startHour /\ slots[i].startMin = c.startMin
        /\ slots[i].endHour = c.endHour /\ slots[i].endMin = c.endMin

\* the store holds a slot of day 2, and there are two candidates in another
\* element's column: one equal to it in the five fields (a duplicate although
\* a different object), one differing in the end minute only (not a duplicate)
DuplicateIffSameKeyWitness ==
  \E i \in 1..Len(slots) : \E c, e \in StoreCandidates :
    /\ c.column # slots[i].column /\ SameKey(slots[i], c)
    /\ e.column = c.column /\ e.date = c.date
    /\ e.startHour = c.startHour /\ e.endHour = c.endHour
    /\ e.endMin # c.endMin
    /\ \A j \in 1..Len(slots) : ~SameKey(slots[j], e)

\* C15: a missing slot, a slot without a date and a slot with an invalid
\* Date are all reported as duplicates, so the guarded insertion never
\* stores one: every stored slot has a valid date.
MalformedCandidateRejected ==
  /\ \A c \in MalformedCandidates : isDuplicate(slots, c)
  /\ \A i \in 1..Len(slots) : slots[i] \notin MalformedCandidates /\ slots[i].date > 0

\* a store with room left, to which the malformed candidates are offered
MalformedCandidateRejectedWitness ==
  /\ Len(slots) = 1
  /\ \A c \in MalformedCandidates : ~(\E i \in 1..Len(slots) : slots[i] = c)
  /\ slots[1].date = 1

\* C16: filterByVisibleDates(K) leaves exactly the slots whose column's date
\* key is in K, each once, in the order they had.
FilterKeepsVisibleInOrder ==
  [][\A K \in SUBSET StoreDateKeys :
       StoreFilter(K) =>
         /\ \A j \in 1..Len(slots') :
              /\ slots'[j].column.dateKey \in K
              /\ \E i \in 1..Len(slots) : slots[i] = slots'[j]
         /\ \A i \in 1..Len(slots) :
              slots[i].column.dateKey \in K => \E j \in 1..Len(slots') : slots'[j] = slots[i]
         /\ Len(slots') =
              Cardinality({i \in 1..Len(slots) : slots[i].column.dateKey \in K})
         /\ \A i1, i2 \in 1..Len(slots) : \A j1, j2 \in 1..Len(slots') :
              (slots[i1] = slots'[j1] /\ slots[i2] = slots'[j2] /\ j1 < j2)
                => i1 < i2]_vars

\* a full store of slots that share a date key, which a filter to that key
\* leaves whole and in order, below a store it has been cut down from
FilterKeepsVisibleInOrderWitness ==
  /\ Len(slots) = MaxSlots
  /\ \A i \in 1..Len(slots) : slots[i].column.dateKey = "k2"
  /\ \E i \in 1..Len(slots) : slots[i].column.element = 3

\* C17: a call of filterByVisibleDates that has nothing to remove leaves the
\* store as it is, removes no overlay and does not refresh the list; and
\* after any call, a second call with the same keys removes nothing.
FilterWithNothingToRemoveIsNoOp ==
  \A K \in SUBSET StoreDateKeys :
    LET first == filterByVisibleDatesEffects(slots, K)
        second == filterByVisibleDatesEffects(first.slots, K)
    IN /\ (\A i \in 1..Len(slots) : slots[i].column.dateKey \in K)
            => (first.slots = slots /\ first.removed = <<>> /\ ~first.refreshed)
       /\ second.slots = first.slots
       /\ second.removed = <<>>
       /\ ~second.refreshed

\* a full store with slots of two date keys: filtering to both keys has
\* nothing to remove, filtering to one removes a slot the first time only
FilterWithNothingToRemoveIsNoOpWitness ==
  /\ Len(slots) = MaxSlots
  /\ \E i, j \in 1..Len(slots) : slots[i].column.dateKey # slots[j].column.dateKey

\* C18: a run of analyze() either succeeds, or leaves columns, hourHeight
\* and gridTop exactly as they were.
AnalyzeIsAllOrNothing ==
  [][CalendarTimeoutFires
       => (gridCache' = gridCache \/ analyze(gridCache, hostView).ok)]_vars

\* C19: a re-analysis of a page without any marker element fails and leaves
\* the GridCache as it was: nothing is compared, pruned or recorded.
NoMarkerElementsKeepsCache ==
  [][((CalendarTimeoutFires \/ ScrollTimeoutFires) /\ Len(DomElements(hostView)) = 0)
       => /\ gridCache' = gridCache
          /\ slots' = slots
          /\ previousDateKeys' = previousDateKeys]_vars

\* the page has lost its marker elements, the debounced re-analysis has run,
\* and the cache still holds the columns of the week shown before
NoMarkerElementsKeepsCacheWitness ==
  /\ Len(DomElements(hostView)) = 0
  /\ ~calendarTimeout /\ ~scrollTimeout
  /\ Len(gridCache.columns) = 2

\* C20: the cached hourHeight is a positive number in every reachable state.
HourHeightPositive ==
  /\ gridCache.hourHeight \in Nat
  /\ gridCache.hourHeight > 0

\* the store still holds a slot of the week first shown, and the cache comes
\* from a later analysis: one that measured the hour markers (60px), or one
\* that fell back to the default for a grid out of range
HourHeightPositiveWitness ==
  /\ ~calendarTimeout
  /\ \E i \in 1..Len(slots) : slots[i].column.element \in {1, 2}
  /\ \/ (hostView = 5 /\ gridCache.hourHeight = 60)
     \/ (hostView = 4 /\ gridCache.hourHeight = GCAL_HOUR_HEIGHT_PX
           /\ gridCache.columns[1].element = 7)

\* C21: after every analysis the cached columns are in non-decreasing order
\* of left, whatever the order in which the page lists their elements.
ColumnsSortedByLeft ==
  \A i, j \in 1..Len(gridCache.columns) :
    i < j => gridCache.columns[i].left <= gridCache.columns[j].left

\* the store still holds a slot made on another rendering of the week, and the
\* cache comes from a later analysis of the view that lists day 2 before day 1
ColumnsSortedByLeftWitness ==
  /\ hostView = 1 /\ ~calendarTimeout
  /\ \E i \in 1..Len(slots) : slots[i].column.element \notin {1, 2}
  /\ Len(gridCache.columns) = 2
  /\ gridCache.columns[1].element = 1 /\ gridCache.columns[2].element = 2

\* the conversions depend on the host view and the cache only: their whole
\* range of inputs is examined in the states without a drag or a slot
AtRest == dragState = DragIdle /\ slots = <<>>

\* C22: getTimeFromY answers 0:00 whenever y is not finite, the column
\* element is missing, hourHeight is not a positive finite number or the
\* minute total is not finite (hourHeight NaN).
GetTimeFromYRejectsInvalid ==
  \A y \in {NaN, PosInfinity, NegInfinity, dragState.startY, dragState.currentY} :
    \A el \in {0, dragState.dateColumn.element} :
      \A hh \in {NaN, PosInfinity, NegInfinity, 0, -GCAL_HOUR_HEIGHT_PX,
                  gridCache.hourHeight} :
        (~IsFinite(y) \/ el = 0 \/ ~IsFinite(hh) \/ hh <= 0)
          => getTimeFromY(y, el, [gridCache EXCEPT !.hourHeight = hh], hostView)
               = [hour |-> 0, minute |-> 0]

\* a drag is in progress at a position that a valid geometry converts to a
\* time other than 0:00
GetTimeFromYRejectsInvalidWitness ==
  /\ dragState.isDragging
  /\ dragState.startY # dragState.currentY
  /\ getTimeFromY(dragState.currentY, dragState.dateColumn.element, gridCache, hostView)
       # [hour |-> 0, minute |-> 0]

\* C23: for every finite y, every grid position and every positive
\* hourHeight, getTimeFromY gives an hour in 0..23 and a minute in
\* {0, 15, 30, 45}; so every stored slot starts and ends on a multiple of
\* SNAP_MINUTES.
TimesOnSnapGrid ==
  /\ AtRest =>
       \A y \in -120..1400 : \A hh \in {1, 7, MIN_HOUR_HEIGHT_PX, gridCache.hourHeight,
                                         MAX_HOUR_HEIGHT_PX} :
         \A i \in 1..Len(gridCache.columns) :
           LET t == getTimeFromY(y, gridCache.columns[i].element,
                                 [gridCache EXCEPT !.hourHeight = hh], hostView)
           IN t.hour \in 0..23 /\ t.minute \in {0, 15, 30, 45}
  /\ \A i \in 1..Len(slots) :
       /\ slots[i].startHour \in 0..23 /\ slots[i].endHour \in 0..23
       /\ slots[i].startMin % SNAP_MINUTES = 0 /\ slots[i].startMin \in 0..59
       /\ slots[i].endMin % SNAP_MINUTES = 0 /\ slots[i].endMin \in 0..59

\* the slot of a drag from 7px to 48px below the top of a grid at 100px with
\* 48px per hour: 0:15 to 1:00
TimesOnSnapGridWitness ==
  /\ hostView = 6
  /\ dragState.startY = 107 /\ dragState.currentY = 148 /\ ~dragState.isDragging
  /\ \E i \in 1..Len(slots) :
       /\ slots[i].column.element = 12
       /\ slots[i].startHour = 0 /\ slots[i].startMin = 15
       /\ slots[i].endHour = 1 /\ slots[i].endMin = 0

SlotTimesRoundTrip ==
  /\ LET cache == analyze(InitialCache, 6).cache
         el == cache.columns[1].element
     IN /\ cache.hourHeight = 48 /\ RectTop(el, 6) = 100
        /\ getTimeFromY(100, el, cache, 6) = [hour |-> 0, minute |-> 0]
        /\ getTimeFromY(148, el, cache, 6) = [hour |-> 1, minute |-> 0]
  /\ [][Len(slots') > Len(slots)
         => LET el == dragState.dateColumn.element
                minY == IF dragState.startY < dragState.currentY
                        THEN dragState.startY ELSE dragState.currentY
                maxY == IF dragState.startY < dragState.currentY
                        THEN dragState.currentY ELSE dragState.startY
                startTime == getTimeFromY(minY, el, gridCache, hostView)
                endTime == getTimeFromY(maxY, el, gridCache, hostView)
            IN \E k \in 1..Len(slots') :
                 /\ \A j \in 1..Len(slots) : slots[j] # slots'[k]
                 /\ slots'[k].column = dragState.dateColumn
                 /\ slots'[k].startHour = startTime.hour
                 /\ slots'[k].startMin = startTime.minute
                 /\ slots'[k].endHour = endTime.hour
                 /\ slots'[k].endMin = endTime.minute]_vars

\* an upward drag, from 1140px to 46px, has ended and left the slot that
\* starts at its upper endpoint
SlotTimesRoundTripWitness ==
  /\ ~dragState.isDragging
  /\ dragState.startY = 1140 /\ dragState.currentY = 46
  /\ \E i \in 1..Len(slots) :
       /\ slots[i].column = dragState.dateColumn
       /\ slots[i].endHour * 60 + slots[i].endMin
            > slots[i].startHour * 60 + slots[i].startMin
       /\ slots[i].endHour >= 22

\* C26: for every finite x and every column list an analysis produced,
\* getColumnFromX returns a column whose [left, right] contains x whenever
\* there is one, and none only when there is none; for an x that is not
\* finite it returns none.
ColumnFoundWhenItExists ==
  \A x \in {NaN, PosInfinity, NegInfinity} \cup {p[1] : p \in TimePoints}
           \cup {dragState.startX, dragState.currentX} :
    LET c == getColumnFromX(x, gridCache)
        exists == \E i \in 1..Len(gridCache.columns) :
                    gridCache.columns[i].left <= x /\ x <= gridCache.columns[i].right
    IN IF ~IsFinite(x) THEN c = NoColumn
       ELSE IF exists THEN c # NoColumn /\ c.left <= x /\ x <= c.right
       ELSE c = NoColumn

ModeCall == Toggle \/ Activate \/ Deactivate

\* C27: the Mode Controller starts inactive; toggle negates the state,
\* activate sets it, deactivate clears it, and no call fails.
ModeFollowsCalls ==
  /\ isActive = FALSE
  /\ [][/\ Toggle => isActive' = ~isActive
        /\ Activate => isActive' = TRUE
        /\ Deactivate => isActive' = FALSE
        /\ ModeCall => uncaught' = FALSE]_vars

\* the mode is on again after being switched on, off and on, as the panel's
\* listener has seen
ModeFollowsCallsWitness ==
  /\ isActive
  /\ \E i \in 1..Len(listeners) :
       listeners[i].id = "panel" /\ listeners[i].received = <<TRUE, FALSE, TRUE>>

\* C28: a call that changes the state calls every registered listener once,
\* with the new state, before it returns; a call that leaves the state as it
\* is (activate when active, deactivate when inactive) calls none; toggle
\* always changes the state.
OneNotificationPerChange ==
  [][/\ ModeCall =>
          IF isActive' # isActive
          THEN /\ Len(listeners') = Len(listeners)
               /\ \A i \in 1..Len(listeners) :
                    /\ listeners'[i].id = listeners[i].id
                    /\ listeners'[i].received = Append(listeners[i].received, isActive')
          ELSE listeners' = listeners
     /\ Toggle => isActive' # isActive]_vars

\* two listeners, the second subscribed later, after calls of which one
\* changed the state since: the mode is on and can be activated again
OneNotificationPerChangeWitness ==
  /\ isActive
  /\ Len(listeners) = 2
  /\ listeners[1].received = <<TRUE, FALSE, TRUE>>
  /\ listeners[2].received = <<TRUE>>

\* C29: when a registered listener throws, a call that changes the state
\* still calls every other listener with the new state, keeps the new state
\* and returns without an exception.
ThrowingListenerIsContained ==
  [][(ModeCall /\ isActive' # isActive
        /\ \E i \in 1..Len(listeners) : Throws(listeners[i].id))
       => /\ \A i \in 1..Len(listeners) :
               listeners'[i].received = Append(listeners[i].received, isActive')
          /\ uncaught' = FALSE]_vars

\* the throwing listener was subscribed first and the overlay's listener
\* after it: both have been called and the overlay is shown
ThrowingListenerIsContainedWitness ==
  /\ isActive /\ gridOverlayPE = "auto"
  /\ Len(listeners) >= 2
  /\ listeners[1].id = "faulty" /\ listeners[1].received = <<TRUE>>
  /\ listeners[2].id = "overlay" /\ listeners[2].received = <<TRUE>>

\* C30: init() does not give up when analyze() returns false: it goes on
\* waiting and calls analyze() again later, and it shows the error
\* notification only once INIT_TIMEOUT_MS has elapsed; it never throws.
FailedAnalysisIsRetried ==
  [][InitCheck =>
       /\ (startup'.analyzeCalls > startup.analyzeCalls
             /\ ~analyze(gridCache, hostView).ok)
            => startup'.phase = "waiting"
       /\ (startup'.notification /\ ~startup.notification)
            => startup'.elapsed >= INIT_TIMEOUT_MS
       /\ uncaught' = FALSE]_vars

\* C31: when init() has failed, at whichever step, the error notification
\* has been shown and nothing that init() created is left: no panel, no grid
\* overlay, no drag listeners, no subscription to the Mode Controller, no
\* MutationObserver and no scroll/resize handlers.
InitFailureLeavesNothing ==
  startup.phase = "failed" =>
    /\ startup.notification
    /\ page = PageEmpty
    /\ listeners = <<>>

\* the marker elements of the view that are tall enough, have a width and
\* resolve to a valid date
GridElements(v) ==
  {i \in 1..Len(DomElements(v)) :
     /\ DomElements(v)[i].height > MIN_GRID_HEIGHT_PX
     /\ DomElements(v)[i].right - DomElements(v)[i].left > 0
     /\ parseDateKey(DomElements(v)[i], v) \notin {NoDate, 0}}

\* C32: a re-analysis succeeds if and only if some marker element is taller
\* than MIN_GRID_HEIGHT_PX, has a width and resolves to a valid date; the
\* columns it leaves are then one for each such element and no other.
AnalyzeTakesTallResolvedElements ==
  [][CalendarTimeoutFires =>
       /\ analyze(gridCache, hostView).ok <=> GridElements(hostView) # {}
       /\ GridElements(hostView) # {} =>
            /\ Len(gridCache'.columns) = Cardinality(GridElements(hostView))
            /\ {gridCache'.columns[i].element : i \in 1..Len(gridCache'.columns)}
                 = {DomElements(hostView)[i].element : i \in GridElements(hostView)}]_vars

\* a partial success: view 9 analysed, three of its six tall elements kept
AnalyzeTakesTallResolvedElementsWitness ==
  /\ hostView = 9
  /\ ~calendarTimeout
  /\ {gridCache.columns[i].element : i \in 1..Len(gridCache.columns)} = {40, 41, 42}

\* the dates that the strategies yield for a marker element, in the order
\* they are tried: the marker, the labels of the elements that share it, the
\* element's own attributes and text
StrategyDates(e, v) ==
  LET all == DomElements(v)
      Shares(el) == el.dateKey = e.dateKey
      sharing == SelectSeq(all, Shares)
  IN << DirectDate(e.dateKey) >>
       \o [i \in 1..Len(sharing) |->
             IF "label" \in DOMAIN sharing[i] THEN sharing[i].label
             ELSE IF sharing[i].date = 0 THEN NoDate ELSE sharing[i].date]
       \o << IF "own" \in DOMAIN e THEN e.own ELSE NoDate >>

\* the first valid one, NoDate if there is none
FirstValidDate(e, v) ==
  LET ds == StrategyDates(e, v)
      valid == {i \in 1..Len(ds) : ds[i] > 0}
  IN IF valid = {} THEN NoDate ELSE ds[CHOOSE i \in valid : \A j \in valid : i <= j]

\* C33: after a successful re-analysis every tall marker element for which
\* some strategy yields a valid date has a column, dated by the first
\* strategy that does; an element is dropped only if no strategy does.
FirstValidStrategyDates ==
  [][(CalendarTimeoutFires /\ analyze(gridCache, hostView).ok) =>
       \A i \in 1..Len(DomElements(hostView)) :
         LET e == DomElements(hostView)[i]
         IN (e.height > MIN_GRID_HEIGHT_PX /\ e.right - e.left > 0
               /\ FirstValidDate(e, hostView) # NoDate)
              => \E j \in 1..Len(gridCache'.columns) :
                   /\ gridCache'.columns[j].element = e.element
                   /\ gridCache'.columns[j].date = FirstValidDate(e, hostView)]_vars

\* C34: without a measurement from hour markers, the hour height is exactly
\* h/24 for every grid height h from 24 * MIN_HOUR_HEIGHT_PX to
\* 24 * MAX_HOUR_HEIGHT_PX, both ends included, and GCAL_HOUR_HEIGHT_PX for
\* every other h; and that is the hourHeight an analysis leaves in the cache.
HourHeightFromGridHeight ==
  /\ AtRest =>
       \A h \in 0..2500 : \A tops \in {<<>>, <<0>>, <<0, 10>>, <<0, 200, 500>>} :
         calculateHourHeightTimes24(tops, h) =
           IF 720 <= h /\ h <= 2400 THEN h ELSE 48 * 24
  /\ (~calendarTimeout /\ gridCache.columns # <<>>
        /\ IsAttached(gridCache.columns[1].element, hostView)
        /\ HostMarkers[hostView] = <<>>)
       => LET h == RectHeight(gridCache.columns[1].element, hostView)
          IN gridCache.hourHeight * 24 = IF 720 <= h /\ h <= 2400 THEN h ELSE 48 * 24

\* view 10 has been analysed: 1200px without hour markers give 50px per hour
HourHeightFromGridHeightWitness ==
  /\ hostView = 10
  /\ ~calendarTimeout
  /\ gridCache.columns # <<>>
  /\ gridCache.columns[1].element = 50
  /\ gridCache.hourHeight = 50

\* the first gaps between consecutive hour markers, at most five, in order
\* of size
FirstGaps(tops) ==
  SortNumbers([i \in 1..Min(Len(tops) - 1, 5) |-> tops[i + 1] - tops[i]])

\* twice the median of a sorted list that is not empty
TwiceMedian(sorted) ==
  LET n == Len(sorted)
  IN IF n % 2 = 1 THEN 2 * sorted[(n + 1) \div 2]
     ELSE sorted[n \div 2] + sorted[(n \div 2) + 1]

\* C35: on a view with at least two hour markers, the hourHeight an analysis
\* leaves is the median of the first (at most five) gaps between consecutive
\* markers, so that one gap that differs from the others does not change it.
HourHeightIsMedianOfGaps ==
  (~calendarTimeout /\ gridCache.columns # <<>>
     /\ IsAttached(gridCache.columns[1].element, hostView)
     /\ Len(HostMarkers[hostView]) >= 2)
    => 2 * gridCache.hourHeight = TwiceMedian(FirstGaps(HostMarkers[hostView]))

\* C36: while selection mode is off, and once cleanup() has run, no element
\* of the host page is left with the pointer-events style this application
\* sets: what activation disabled, deactivation and teardown have restored.
HostColumnsRestored ==
  (~isActive \/ startup.phase = "cleanedUp") => page.disabled = {}

\* C40: once cleanup() has run, nothing the instance registered runs again
\* with effect: no step re-analyses the grid, changes the store, or changes
\* what the instance has put on the page.
NothingRunsAfterCleanup ==
  [][startup.phase = "cleanedUp" =>
       /\ gridCache' = gridCache
       /\ slots' = slots
       /\ previousDateKeys' = previousDateKeys
       /\ gridOverlayPE' = gridOverlayPE]_vars

\* C38: for a fixed column and hourHeight the time of a position never
\* decreases as y grows, from above the top of the column to below its
\* 24:00 line.  It is stated for each y and y + 1, which gives it for every
\* y1 <= y2.
TimeMonotoneInY ==
  AtRest =>
    \A i \in 1..Len(gridCache.columns) : \A y \in -120..1400 :
      LET el == gridCache.columns[i].element
          t1 == getTimeFromY(y, el, gridCache, hostView)
          t2 == getTimeFromY(y + 1, el, gridCache, hostView)
      IN t1.hour * 60 + t1.minute <= t2.hour * 60 + t2.minute

\* C37: every permanent selection overlay the application has created and
\* not removed belongs to a slot of the store, one overlay per stored slot at
\* most: removeSlot, clearAll and filterByVisibleDates take the overlay of
\* each slot they drop with it, and a drag rejected as too short or as a
\* duplicate leaves no overlay.  An overlay counts as long as the
\* application has not removed it, whether or not the host still shows its
\* column.
SelectionOverlaysBelongToSlots ==
  \A o \in DOMAIN page.overlays :
    page.overlays[o] <= Cardinality({i \in 1..Len(slots) : slots[i] = o})

\* a drag has ended and the store holds one selection: the overlay of that
\* slot is the only permanent overlay there is
SelectionOverlaysBelongToSlotsWitness ==
  /\ Len(slots) = 1
  /\ slots[1].overlay = "selection"
  /\ slots[1].startHour > 0
  /\ DOMAIN page.overlays = {slots[1]}
  /\ page.overlays[slots[1]] = 1
  /\ ~dragState.isDragging
  /\ dragState.startY # 0

\* C39: whenever a call of toggle(), activate() or deactivate() has
\* returned, with listeners that call the Mode Controller back while they
\* are notified, the value each registered listener was called with last
\* (since it was registered) is the state isSelectionModeActive() returns.
LastDeliveredIsCurrent ==
  \A i \in 1..Len(listeners) :
    listeners[i].received # <<>>
      => listeners[i].received[Len(listeners[i].received)] = isActive

\* "veto" was registered before the panel's listener and activate() was
\* called: told TRUE, "veto" called deactivate(), which told both FALSE, and
\* the outer loop then called the panel's listener, with FALSE again
LastDeliveredIsCurrentWitness ==
  /\ ~isActive
  /\ Len(listeners) = 2
  /\ listeners[1].id = "veto"
  /\ listeners[1].received = <<TRUE, FALSE>>
  /\ listeners[2].id = "panel"
  /\ listeners[2].received = <<FALSE, FALSE>>

====
